---- MODULE Spec2Model ----
(***************************************************************************)
(* Model of the deterministic core of the financial due-diligence agent:   *)
(* the iXBRL Fact Scanner (tools/adk_pdf_tools.py), the Revenue Reconciler *)
(* and ExtractionAgent (agents/extraction_agent_adk.py), the two metric    *)
(* implementations (tools/financial_calcs.py, agents/                      *)
(* financial_agent_adk.py), LiveMarketStateAgent and ValuationAgent, the   *)
(* section map of the filing (tools/adk_text_tools.py), RiskMdnaAgent and  *)
(* the section retrieval of QaAgent (agents/qa_agent_adk.py,               *)
(* tools/adk_qa_tools.py), and the pipeline of build_mas                   *)
(* (agents/mas_root.py) followed by the chat loop of app.py.               *)
(*                                                                         *)
(* Conventions.  Python None is the empty tuple.  A Python float is an     *)
(* exact rational <<n, d>> in lowest terms with d > 0.  A dict is a        *)
(* function whose DOMAIN is its key set.  A text (element text, attribute  *)
(* value) is a tuple of one-character strings.  A period end date          *)
(* 'YYYY-MM-DD' is the integer YYYYMMDD, whose order is the string order.  *)
(***************************************************************************)
EXTENDS Integers, Sequences, FiniteSets, TLC

VARIABLES
    doc,                   \* the ix:nonFraction tags of the document, in document order
    file,                  \* how the file at the document path reads
    ran,                   \* the agents the pipeline has run, in order
    trading_symbol,        \* the text of the document's dei:TradingSymbol fact, or None
    pc,                    \* position of the run
    raw_values_by_concept, \* _extract_key_facts_from_ixbrl: concept -> period -> value
    parsed_facts,          \* parsed["facts"] as parse_10k_html_ixbrl returned it
    revenue_by_period,     \* what _extract_revenue_direct_from_file returned
    reordered_facts,       \* parse_10k_html_ixbrl(...)["facts"] of a reordered document
    state,                 \* ctx.session.state
    raised,                \* the agents and tools that raised
    core_result,           \* what compute_core_metrics returned
    html_nodes,            \* the text nodes of the document, in document order
    section_map,           \* what build_10k_section_map returned
    question,              \* the question of a retrieval call
    intents,               \* the intent labels of a retrieval call
    top_k,                 \* top_k of a call of _fallback_sections_for_question
    min_score,             \* min_score of a call of _fallback_sections_for_question
    sections_index,        \* the index a retrieval call is given
    sections_index_filtered \* what the retrieval call returned

vars == <<doc, file, ran, trading_symbol, pc, raw_values_by_concept, parsed_facts, revenue_by_period,
          reordered_facts, state, raised, core_result, html_nodes, section_map,
          question, intents, top_k, min_score, sections_index, sections_index_filtered>>

\* the variables of a retrieval call
qaVars == <<question, intents, top_k, min_score, sections_index, sections_index_filtered>>

\* the variables of the narrative side: sections and question answering
textVars == <<html_nodes, section_map, qaVars>>

-----------------------------------------------------------------------------
(* Python values *)

None == <<>>

EmptyDict == <<>>

\* no retrieval call has been made
QaIdle ==
    /\ question = None
    /\ intents = {}
    /\ top_k = None
    /\ min_score = None
    /\ sections_index = None
    /\ sections_index_filtered = None

Get(d, k) == IF k \in DOMAIN d THEN d[k] ELSE None

Put(d, k, v) == [x \in (DOMAIN d) \cup {k} |-> IF x = k THEN v ELSE d[x]]

OrEmpty(d) == IF d = None THEN EmptyDict ELSE d

-----------------------------------------------------------------------------
(* Exact arithmetic standing for float arithmetic *)

Abs(i) == IF i < 0 THEN 0 - i ELSE i

RECURSIVE GCD(_, _)
GCD(a, b) == IF b = 0 THEN a ELSE GCD(b, a % b)

\* n/d over the common divisor g, with a positive denominator
Reduce(n, d, g) ==
    IF d < 0 THEN <<(0 - n) \div g, (0 - d) \div g>> ELSE <<n \div g, d \div g>>

Rat(n, d) == Reduce(n, d, GCD(Abs(n), Abs(d)))

FromInt(i) == <<i, 1>>

RAdd(a, b) == Rat(a[1] * b[2] + b[1] * a[2], a[2] * b[2])

RSub(a, b) == Rat(a[1] * b[2] - b[1] * a[2], a[2] * b[2])

RMul(a, b) == Rat(a[1] * b[1], a[2] * b[2])

RDiv(a, b) == Rat(a[1] * b[2], a[2] * b[1])

RNeg(a) == <<0 - a[1], a[2]>>

RAbs(a) == <<Abs(a[1]), a[2]>>

RLt(a, b) == a[1] * b[2] < b[1] * a[2]

IsZero(a) == a[1] = 0

Zero == <<0, 1>>

RECURSIVE Pow10(_)
Pow10(k) == IF k = 0 THEN 1 ELSE 10 * Pow10(k - 1)

-----------------------------------------------------------------------------
(* Texts *)

Digits == {"0", "1", "2", "3", "4", "5", "6", "7", "8", "9"}

DigitVal(c) ==
    CASE c = "0" -> 0 [] c = "1" -> 1 [] c = "2" -> 2 [] c = "3" -> 3
      [] c = "4" -> 4 [] c = "5" -> 5 [] c = "6" -> 6 [] c = "7" -> 7
      [] c = "8" -> 8 [] c = "9" -> 9

\* str.strip(chars): drop leading and trailing characters that are in chars
RECURSIVE LStrip(_, _)
LStrip(s, chars) ==
    IF s # <<>> /\ Head(s) \in chars THEN LStrip(Tail(s), chars) ELSE s

RECURSIVE RStrip(_, _)
RStrip(s, chars) ==
    IF s # <<>> /\ s[Len(s)] \in chars
    THEN RStrip(SubSeq(s, 1, Len(s) - 1), chars) ELSE s

Strip(s, chars) == RStrip(LStrip(s, chars), chars)

White == {" "}

\* str.replace(c, ""): drop every occurrence of the characters in chars
Remove(s, chars) == SelectSeq(s, LAMBDA c : c \notin chars)

\* the value of a run of digits
RECURSIVE DigitsVal(_)
DigitsVal(s) ==
    IF s = <<>> THEN 0
    ELSE 10 * DigitsVal(SubSeq(s, 1, Len(s) - 1)) + DigitVal(s[Len(s)])

AllDigits(s) == \A i \in 1..Len(s) : s[i] \in Digits

\* a leading sign of a non-empty text, and the text after it
Negative(t) == Head(t) = "-"

Unsigned(t) == IF Head(t) \in {"-", "+"} THEN Tail(t) ELSE t

\* one or more digits; None stands for ValueError
IntOfDigits(body) ==
    IF body = <<>> \/ ~AllDigits(body) THEN None ELSE <<DigitsVal(body)>>

NegateInt(negative, v) ==
    IF v # None /\ negative THEN <<0 - v[1]>> ELSE v

IntOfStripped(t) ==
    IF t = <<>> THEN None ELSE NegateInt(Negative(t), IntOfDigits(Unsigned(t)))

\* int(text): optional blanks, optional sign, one or more digits; the result
\* is <<i>>, or None for ValueError
PyInt(text) == IntOfStripped(Strip(text, White))

\* the digits before and after the decimal point; a second point is no digit
FloatOfParts(whole, frac) ==
    IF ~AllDigits(whole) \/ ~AllDigits(frac) \/ (whole = <<>> /\ frac = <<>>)
    THEN None
    ELSE Rat(DigitsVal(whole \o frac), Pow10(Len(frac)))

\* the position of the first decimal point, or one past the end
RECURSIVE PointAt(_, _)
PointAt(body, i) ==
    IF i > Len(body) \/ body[i] = "." THEN i ELSE PointAt(body, i + 1)

FloatAtPoint(body, i) ==
    FloatOfParts(SubSeq(body, 1, i - 1), SubSeq(body, i + 1, Len(body)))

Negate(negative, v) ==
    IF v # None /\ negative THEN RNeg(v) ELSE v

FloatOfStripped(t) ==
    IF t = <<>> THEN None
    ELSE Negate(Negative(t), FloatAtPoint(Unsigned(t), PointAt(Unsigned(t), 1)))

\* float(text): optional blanks, optional sign, digits with at most one
\* decimal point and at least one digit; None stands for ValueError
PyFloat(text) == FloatOfStripped(Strip(text, White))

\* sub in s
Contains(s, sub) ==
    \E i \in 1..(Len(s) - Len(sub) + 1) : SubSeq(s, i, i + Len(sub) - 1) = sub

LowerChar(c) ==
    CASE c = "A" -> "a" [] c = "B" -> "b" [] c = "C" -> "c" [] c = "D" -> "d"
      [] c = "E" -> "e" [] c = "F" -> "f" [] c = "G" -> "g" [] c = "H" -> "h"
      [] c = "I" -> "i" [] c = "J" -> "j" [] c = "K" -> "k" [] c = "L" -> "l"
      [] c = "M" -> "m" [] c = "N" -> "n" [] c = "O" -> "o" [] c = "P" -> "p"
      [] c = "Q" -> "q" [] c = "R" -> "r" [] c = "S" -> "s" [] c = "T" -> "t"
      [] c = "U" -> "u" [] c = "V" -> "v" [] c = "W" -> "w" [] c = "X" -> "x"
      [] c = "Y" -> "y" [] c = "Z" -> "z"
      [] OTHER -> c

Lower(s) == [i \in 1..Len(s) |-> LowerChar(s[i])]

Letters ==
    {"a", "b", "c", "d", "e", "f", "g", "h", "i", "j", "k", "l", "m", "n", "o",
     "p", "q", "r", "s", "t", "u", "v", "w", "x", "y", "z"}

-----------------------------------------------------------------------------
(* The document: contexts, units and inline facts *)

P1 == 20210925

P2 == 20220924

Periods == {P1, P2}

Chars(w) ==
    CASE w = "usd" -> <<"u", "s", "d">>
      [] w = "USD" -> <<"U", "S", "D">>
      [] w = "kusd" -> <<"k", "u", "s", "d">>
      [] w = "USD thousand" ->
            <<"U", "S", "D", " ", "t", "h", "o", "u", "s", "a", "n", "d">>
      [] w = "thousand" -> <<"t", "h", "o", "u", "s", "a", "n", "d">>
      [] w = "million" -> <<"m", "i", "l", "l", "i", "o", "n">>
      [] w = "billion" -> <<"b", "i", "l", "l", "i", "o", "n">>
      [] w = "100" -> <<"1", "0", "0">>
      [] w = "120" -> <<"1", "2", "0">>
      [] w = "1,250" -> <<"1", ",", "2", "5", "0">>
      [] w = "(50)" -> <<"(", "5", "0", ")">>
      [] w = "$7.5" -> <<"$", "7", ".", "5">>
      [] w = "n/a" -> <<"n", "/", "a">>
      [] w = "-2" -> <<"-", "2">>
      [] w = "-1" -> <<"-", "1">>
      [] w = "0" -> <<"0">>
      [] w = "1" -> <<"1">>
      [] w = "2" -> <<"2">>
      [] w = "4" -> <<"4">>
      [] w = "5" -> <<"5">>
      [] w = "10" -> <<"1", "0">>
      [] w = "20" -> <<"2", "0">>
      [] w = "30" -> <<"3", "0">>
      [] w = "40" -> <<"4", "0">>
      [] w = "INF" -> <<"I", "N", "F">>
      [] w = "AAPL" -> <<"A", "A", "P", "L">>
      [] w = "item_1" -> 
            <<"i", "t", "e", "m", "_", "1">>
      [] w = "Item 1. Business" -> 
            <<"I", "t", "e", "m", " ", "1", ".", " ", "B", "u", "s", "i", "n", "e", 
              "s", "s">>
      [] w = "item_1a" -> 
            <<"i", "t", "e", "m", "_", "1", "a">>
      [] w = "Item 1A. Risk Factors" -> 
            <<"I", "t", "e", "m", " ", "1", "A", ".", " ", "R", "i", "s", "k", " ", 
              "F", "a", "c", "t", "o", "r", "s">>
      [] w = "item_1b" -> 
            <<"i", "t", "e", "m", "_", "1", "b">>
      [] w = "Item 1B. Unresolved Staff Comments" -> 
            <<"I", "t", "e", "m", " ", "1", "B", ".", " ", "U", "n", "r", "e", "s", 
              "o", "l", "v", "e", "d", " ", "S", "t", "a", "f", "f", " ", "C", "o", 
              "m", "m", "e", "n", "t", "s">>
      [] w = "item_1c" -> 
            <<"i", "t", "e", "m", "_", "1", "c">>
      [] w = "Item 1C. Cybersecurity" -> 
            <<"I", "t", "e", "m", " ", "1", "C", ".", " ", "C", "y", "b", "e", "r", 
              "s", "e", "c", "u", "r", "i", "t", "y">>
      [] w = "item_2" -> 
            <<"i", "t", "e", "m", "_", "2">>
      [] w = "Item 2. Properties" -> 
            <<"I", "t", "e", "m", " ", "2", ".", " ", "P", "r", "o", "p", "e", "r", 
              "t", "i", "e", "s">>
      [] w = "item_3" -> 
            <<"i", "t", "e", "m", "_", "3">>
      [] w = "Item 3. Legal Proceedings" -> 
            <<"I", "t", "e", "m", " ", "3", ".", " ", "L", "e", "g", "a", "l", " ", 
              "P", "r", "o", "c", "e", "e", "d", "i", "n", "g", "s">>
      [] w = "item_4" -> 
            <<"i", "t", "e", "m", "_", "4">>
      [] w = "Item 4. Mine Safety Disclosures" -> 
            <<"I", "t", "e", "m", " ", "4", ".", " ", "M", "i", "n", "e", " ", "S", 
              "a", "f", "e", "t", "y", " ", "D", "i", "s", "c", "l", "o", "s", "u", 
              "r", "e", "s">>
      [] w = "item_5" -> 
            <<"i", "t", "e", "m", "_", "5">>
      [] w = "Item 5. Market for the Registrant's Common Equity, Related Stockholder Matters and Issuer Purchases of Equity Securities" -> 
            <<"I", "t", "e", "m", " ", "5", ".", " ", "M", "a", "r", "k", "e", "t", 
              " ", "f", "o", "r", " ", "t", "h", "e", " ", "R", "e", "g", "i", "s", 
              "t", "r", "a", "n", "t", "'", "s", " ", "C", "o", "m", "m", "o", "n", 
              " ", "E", "q", "u", "i", "t", "y", ",", " ", "R", "e", "l", "a", "t", 
              "e", "d", " ", "S", "t", "o", "c", "k", "h", "o", "l", "d", "e", "r", 
              " ", "M", "a", "t", "t", "e", "r", "s", " ", "a", "n", "d", " ", "I", 
              "s", "s", "u", "e", "r", " ", "P", "u", "r", "c", "h", "a", "s", "e", 
              "s", " ", "o", "f", " ", "E", "q", "u", "i", "t", "y", " ", "S", "e", 
              "c", "u", "r", "i", "t", "i", "e", "s">>
      [] w = "item_6" -> 
            <<"i", "t", "e", "m", "_", "6">>
      [] w = "Item 6. [Reserved]" -> 
            <<"I", "t", "e", "m", " ", "6", ".", " ", "[", "R", "e", "s", "e", "r", 
              "v", "e", "d", "]">>
      [] w = "item_7" -> 
            <<"i", "t", "e", "m", "_", "7">>
      [] w = "Item 7. Management's Discussion and Analysis of Financial Condition and Results of Operations" -> 
            <<"I", "t", "e", "m", " ", "7", ".", " ", "M", "a", "n", "a", "g", "e", 
              "m", "e", "n", "t", "'", "s", " ", "D", "i", "s", "c", "u", "s", "s", 
              "i", "o", "n", " ", "a", "n", "d", " ", "A", "n", "a", "l", "y", "s", 
              "i", "s", " ", "o", "f", " ", "F", "i", "n", "a", "n", "c", "i", "a", 
              "l", " ", "C", "o", "n", "d", "i", "t", "i", "o", "n", " ", "a", "n", 
              "d", " ", "R", "e", "s", "u", "l", "t", "s", " ", "o", "f", " ", "O", 
              "p", "e", "r", "a", "t", "i", "o", "n", "s">>
      [] w = "item_7a" -> 
            <<"i", "t", "e", "m", "_", "7", "a">>
      [] w = "Item 7A. Quantitative and Qualitative Disclosures About Market Risk" -> 
            <<"I", "t", "e", "m", " ", "7", "A", ".", " ", "Q", "u", "a", "n", "t", 
              "i", "t", "a", "t", "i", "v", "e", " ", "a", "n", "d", " ", "Q", "u", 
              "a", "l", "i", "t", "a", "t", "i", "v", "e", " ", "D", "i", "s", "c", 
              "l", "o", "s", "u", "r", "e", "s", " ", "A", "b", "o", "u", "t", " ", 
              "M", "a", "r", "k", "e", "t", " ", "R", "i", "s", "k">>
      [] w = "item_8" -> 
            <<"i", "t", "e", "m", "_", "8">>
      [] w = "Item 8. Financial Statements and Supplementary Data" -> 
            <<"I", "t", "e", "m", " ", "8", ".", " ", "F", "i", "n", "a", "n", "c", 
              "i", "a", "l", " ", "S", "t", "a", "t", "e", "m", "e", "n", "t", "s", 
              " ", "a", "n", "d", " ", "S", "u", "p", "p", "l", "e", "m", "e", "n", 
              "t", "a", "r", "y", " ", "D", "a", "t", "a">>
      [] w = "item_9" -> 
            <<"i", "t", "e", "m", "_", "9">>
      [] w = "Item 9. Changes in and Disagreements with Accountants on Accounting and Financial Disclosure" -> 
            <<"I", "t", "e", "m", " ", "9", ".", " ", "C", "h", "a", "n", "g", "e", 
              "s", " ", "i", "n", " ", "a", "n", "d", " ", "D", "i", "s", "a", "g", 
              "r", "e", "e", "m", "e", "n", "t", "s", " ", "w", "i", "t", "h", " ", 
              "A", "c", "c", "o", "u", "n", "t", "a", "n", "t", "s", " ", "o", "n", 
              " ", "A", "c", "c", "o", "u", "n", "t", "i", "n", "g", " ", "a", "n", 
              "d", " ", "F", "i", "n", "a", "n", "c", "i", "a", "l", " ", "D", "i", 
              "s", "c", "l", "o", "s", "u", "r", "e">>
      [] w = "item_9a" -> 
            <<"i", "t", "e", "m", "_", "9", "a">>
      [] w = "Item 9A. Controls and Procedures" -> 
            <<"I", "t", "e", "m", " ", "9", "A", ".", " ", "C", "o", "n", "t", "r", 
              "o", "l", "s", " ", "a", "n", "d", " ", "P", "r", "o", "c", "e", "d", 
              "u", "r", "e", "s">>
      [] w = "item_9b" -> 
            <<"i", "t", "e", "m", "_", "9", "b">>
      [] w = "Item 9B. Other Information" -> 
            <<"I", "t", "e", "m", " ", "9", "B", ".", " ", "O", "t", "h", "e", "r", 
              " ", "I", "n", "f", "o", "r", "m", "a", "t", "i", "o", "n">>
      [] w = "item_9c" -> 
            <<"i", "t", "e", "m", "_", "9", "c">>
      [] w = "Item 9C. Disclosure Regarding Foreign Jurisdictions That Prevent Inspections" -> 
            <<"I", "t", "e", "m", " ", "9", "C", ".", " ", "D", "i", "s", "c", "l", 
              "o", "s", "u", "r", "e", " ", "R", "e", "g", "a", "r", "d", "i", "n", 
              "g", " ", "F", "o", "r", "e", "i", "g", "n", " ", "J", "u", "r", "i", 
              "s", "d", "i", "c", "t", "i", "o", "n", "s", " ", "T", "h", "a", "t", 
              " ", "P", "r", "e", "v", "e", "n", "t", " ", "I", "n", "s", "p", "e", 
              "c", "t", "i", "o", "n", "s">>
      [] w = "item_10" -> 
            <<"i", "t", "e", "m", "_", "1", "0">>
      [] w = "Item 10. Directors, Executive Officers and Corporate Governance" -> 
            <<"I", "t", "e", "m", " ", "1", "0", ".", " ", "D", "i", "r", "e", "c", 
              "t", "o", "r", "s", ",", " ", "E", "x", "e", "c", "u", "t", "i", "v", 
              "e", " ", "O", "f", "f", "i", "c", "e", "r", "s", " ", "a", "n", "d", 
              " ", "C", "o", "r", "p", "o", "r", "a", "t", "e", " ", "G", "o", "v", 
              "e", "r", "n", "a", "n", "c", "e">>
      [] w = "item_11" -> 
            <<"i", "t", "e", "m", "_", "1", "1">>
      [] w = "Item 11. Executive Compensation" -> 
            <<"I", "t", "e", "m", " ", "1", "1", ".", " ", "E", "x", "e", "c", "u", 
              "t", "i", "v", "e", " ", "C", "o", "m", "p", "e", "n", "s", "a", "t", 
              "i", "o", "n">>
      [] w = "item_12" -> 
            <<"i", "t", "e", "m", "_", "1", "2">>
      [] w = "Item 12. Security Ownership of Certain Beneficial Owners and Management and Related Stockholder Matters" -> 
            <<"I", "t", "e", "m", " ", "1", "2", ".", " ", "S", "e", "c", "u", "r", 
              "i", "t", "y", " ", "O", "w", "n", "e", "r", "s", "h", "i", "p", " ", 
              "o", "f", " ", "C", "e", "r", "t", "a", "i", "n", " ", "B", "e", "n", 
              "e", "f", "i", "c", "i", "a", "l", " ", "O", "w", "n", "e", "r", "s", 
              " ", "a", "n", "d", " ", "M", "a", "n", "a", "g", "e", "m", "e", "n", 
              "t", " ", "a", "n", "d", " ", "R", "e", "l", "a", "t", "e", "d", " ", 
              "S", "t", "o", "c", "k", "h", "o", "l", "d", "e", "r", " ", "M", "a", 
              "t", "t", "e", "r", "s">>
      [] w = "item_13" -> 
            <<"i", "t", "e", "m", "_", "1", "3">>
      [] w = "Item 13. Certain Relationships and Related Transactions, and Director Independence" -> 
            <<"I", "t", "e", "m", " ", "1", "3", ".", " ", "C", "e", "r", "t", "a", 
              "i", "n", " ", "R", "e", "l", "a", "t", "i", "o", "n", "s", "h", "i", 
              "p", "s", " ", "a", "n", "d", " ", "R", "e", "l", "a", "t", "e", "d", 
              " ", "T", "r", "a", "n", "s", "a", "c", "t", "i", "o", "n", "s", ",", 
              " ", "a", "n", "d", " ", "D", "i", "r", "e", "c", "t", "o", "r", " ", 
              "I", "n", "d", "e", "p", "e", "n", "d", "e", "n", "c", "e">>
      [] w = "item_14" -> 
            <<"i", "t", "e", "m", "_", "1", "4">>
      [] w = "Item 14. Principal Accountant Fees and Services" -> 
            <<"I", "t", "e", "m", " ", "1", "4", ".", " ", "P", "r", "i", "n", "c", 
              "i", "p", "a", "l", " ", "A", "c", "c", "o", "u", "n", "t", "a", "n", 
              "t", " ", "F", "e", "e", "s", " ", "a", "n", "d", " ", "S", "e", "r", 
              "v", "i", "c", "e", "s">>
      [] w = "item_15" -> 
            <<"i", "t", "e", "m", "_", "1", "5">>
      [] w = "Item 15. Exhibits and Financial Statement Schedules" -> 
            <<"I", "t", "e", "m", " ", "1", "5", ".", " ", "E", "x", "h", "i", "b", 
              "i", "t", "s", " ", "a", "n", "d", " ", "F", "i", "n", "a", "n", "c", 
              "i", "a", "l", " ", "S", "t", "a", "t", "e", "m", "e", "n", "t", " ", 
              "S", "c", "h", "e", "d", "u", "l", "e", "s">>
      [] w = "item_16" -> 
            <<"i", "t", "e", "m", "_", "1", "6">>
      [] w = "Item 16. Form 10-K Summary" -> 
            <<"I", "t", "e", "m", " ", "1", "6", ".", " ", "F", "o", "r", "m", " ", 
              "1", "0", "-", "K", " ", "S", "u", "m", "m", "a", "r", "y">>
      [] w = "Item 1A. Risk Factors" -> 
            <<"I", "t", "e", "m", " ", "1", "A", ".", " ", "R", "i", "s", "k", " ", 
              "F", "a", "c", "t", "o", "r", "s">>
      [] w = "Item 1B. Unresolved Staff Comments" -> 
            <<"I", "t", "e", "m", " ", "1", "B", ".", " ", "U", "n", "r", "e", "s", 
              "o", "l", "v", "e", "d", " ", "S", "t", "a", "f", "f", " ", "C", "o", 
              "m", "m", "e", "n", "t", "s">>
      [] w = "ITEM 7. MD&A" -> 
            <<"I", "T", "E", "M", " ", "7", ".", " ", "M", "D", "&", "A">>
      [] w = "item 7." -> 
            <<"i", "t", "e", "m", " ", "7", ".">>
      [] w = "Item 17. Annex" -> 
            <<"I", "t", "e", "m", " ", "1", "7", ".", " ", "A", "n", "n", "e", "x">>
      [] w = "risks are many" -> 
            <<"r", "i", "s", "k", "s", " ", "a", "r", "e", " ", "m", "a", "n", "y">>
      [] w = "see Item 7. and Item 8. below" -> 
            <<"s", "e", "e", " ", "I", "t", "e", "m", " ", "7", ".", " ", "a", "n", 
              "d", " ", "I", "t", "e", "m", " ", "8", ".", " ", "b", "e", "l", "o", 
              "w">>
      [] w = " Item 8. Financial Statements " -> 
            <<" ", "I", "t", "e", "m", " ", "8", ".", " ", "F", "i", "n", "a", "n", 
              "c", "i", "a", "l", " ", "S", "t", "a", "t", "e", "m", "e", "n", "t", 
              "s", " ">>
      [] w = "Item 7. " -> 
            <<"I", "t", "e", "m", " ", "7", ".", " ">>
      [] w = " Item 8." -> 
            <<" ", "I", "t", "e", "m", " ", "8", ".">>
      [] w = "Item 1A." -> 
            <<"I", "t", "e", "m", " ", "1", "A", ".">>
      [] w = "Item 1B." -> 
            <<"I", "t", "e", "m", " ", "1", "B", ".">>
      [] w = "item_" -> 
            <<"i", "t", "e", "m", "_">>
      [] w = "item_17" -> 
            <<"i", "t", "e", "m", "_", "1", "7">>
      [] w = "Item 7 risk" -> 
            <<"I", "t", "e", "m", " ", "7", " ", "r", "i", "s", "k">>
      [] w = "risk factors?" -> 
            <<"r", "i", "s", "k", " ", "f", "a", "c", "t", "o", "r", "s", "?">>
      [] w = "any downside?" -> 
            <<"a", "n", "y", " ", "d", "o", "w", "n", "s", "i", "d", "e", "?">>
      [] w = "17" -> 
            <<"1", "7">>
      [] w = "1A" -> 
            <<"1", "A">>
      [] w = "7" -> 
            <<"7">>
      [] w = "1a" -> 
            <<"1", "a">>
      [] w = "cash flow" -> 
            <<"c", "a", "s", "h", " ", "f", "l", "o", "w">>
      [] w = "current market cap" -> 
            <<"c", "u", "r", "r", "e", "n", "t", " ", "m", "a", "r", "k", "e", 
              "t", " ", "c", "a", "p">>
      [] w = "current price" -> 
            <<"c", "u", "r", "r", "e", "n", "t", " ", "p", "r", "i", "c", "e">>
      [] w = "downside" -> 
            <<"d", "o", "w", "n", "s", "i", "d", "e">>
      [] w = "due diligence summary" -> 
            <<"d", "u", "e", " ", "d", "i", "l", "i", "g", "e", "n", "c", "e", 
              " ", "s", "u", "m", "m", "a", "r", "y">>
      [] w = "earnings" -> 
            <<"e", "a", "r", "n", "i", "n", "g", "s">>
      [] w = "fcf" -> 
            <<"f", "c", "f">>
      [] w = "financial highlight" -> 
            <<"f", "i", "n", "a", "n", "c", "i", "a", "l", " ", "h", "i", "g", 
              "h", "l", "i", "g", "h", "t">>
      [] w = "financial highlights" -> 
            <<"f", "i", "n", "a", "n", "c", "i", "a", "l", " ", "h", "i", "g", 
              "h", "l", "i", "g", "h", "t", "s">>
      [] w = "financials" -> 
            <<"f", "i", "n", "a", "n", "c", "i", "a", "l", "s">>
      [] w = "free cash flow" -> 
            <<"f", "r", "e", "e", " ", "c", "a", "s", "h", " ", "f", "l", "o", "w">>
      [] w = "headwind" -> 
            <<"h", "e", "a", "d", "w", "i", "n", "d">>
      [] w = "headwinds" -> 
            <<"h", "e", "a", "d", "w", "i", "n", "d", "s">>
      [] w = "high level" -> 
            <<"h", "i", "g", "h", " ", "l", "e", "v", "e", "l">>
      [] w = "investment memo" -> 
            <<"i", "n", "v", "e", "s", "t", "m", "e", "n", "t", " ", "m", "e", 
              "m", "o">>
      [] w = "investment thesis" -> 
            <<"i", "n", "v", "e", "s", "t", "m", "e", "n", "t", " ", "t", "h", 
              "e", "s", "i", "s">>
      [] w = "item 7" -> 
            <<"i", "t", "e", "m", " ", "7">>
      [] w = "item seven" -> 
            <<"i", "t", "e", "m", " ", "s", "e", "v", "e", "n">>
      [] w = "live market" -> 
            <<"l", "i", "v", "e", " ", "m", "a", "r", "k", "e", "t">>
      [] w = "live price" -> 
            <<"l", "i", "v", "e", " ", "p", "r", "i", "c", "e">>
      [] w = "management discussion" -> 
            <<"m", "a", "n", "a", "g", "e", "m", "e", "n", "t", " ", "d", "i", 
              "s", "c", "u", "s", "s", "i", "o", "n">>
      [] w = "management's discussion" -> 
            <<"m", "a", "n", "a", "g", "e", "m", "e", "n", "t", "'", "s", " ", 
              "d", "i", "s", "c", "u", "s", "s", "i", "o", "n">>
      [] w = "margin" -> 
            <<"m", "a", "r", "g", "i", "n">>
      [] w = "market cap" -> 
            <<"m", "a", "r", "k", "e", "t", " ", "c", "a", "p">>
      [] w = "market capitalization" -> 
            <<"m", "a", "r", "k", "e", "t", " ", "c", "a", "p", "i", "t", "a", 
              "l", "i", "z", "a", "t", "i", "o", "n">>
      [] w = "market price" -> 
            <<"m", "a", "r", "k", "e", "t", " ", "p", "r", "i", "c", "e">>
      [] w = "md&a" -> 
            <<"m", "d", "&", "a">>
      [] w = "mdna" -> 
            <<"m", "d", "n", "a">>
      [] w = "net income" -> 
            <<"n", "e", "t", " ", "i", "n", "c", "o", "m", "e">>
      [] w = "operating cash" -> 
            <<"o", "p", "e", "r", "a", "t", "i", "n", "g", " ", "c", "a", "s", "h">>
      [] w = "overall assessment" -> 
            <<"o", "v", "e", "r", "a", "l", "l", " ", "a", "s", "s", "e", "s", 
              "s", "m", "e", "n", "t">>
      [] w = "overall view" -> 
            <<"o", "v", "e", "r", "a", "l", "l", " ", "v", "i", "e", "w">>
      [] w = "performance" -> 
            <<"p", "e", "r", "f", "o", "r", "m", "a", "n", "c", "e">>
      [] w = "profit" -> 
            <<"p", "r", "o", "f", "i", "t">>
      [] w = "results" -> 
            <<"r", "e", "s", "u", "l", "t", "s">>
      [] w = "revenue" -> 
            <<"r", "e", "v", "e", "n", "u", "e">>
      [] w = "risk" -> 
            <<"r", "i", "s", "k">>
      [] w = "risk factor" -> 
            <<"r", "i", "s", "k", " ", "f", "a", "c", "t", "o", "r">>
      [] w = "risk factors" -> 
            <<"r", "i", "s", "k", " ", "f", "a", "c", "t", "o", "r", "s">>
      [] w = "risks" -> 
            <<"r", "i", "s", "k", "s">>
      [] w = "sales" -> 
            <<"s", "a", "l", "e", "s">>
      [] w = "share is trading" -> 
            <<"s", "h", "a", "r", "e", " ", "i", "s", " ", "t", "r", "a", "d", 
              "i", "n", "g">>
      [] w = "share price" -> 
            <<"s", "h", "a", "r", "e", " ", "p", "r", "i", "c", "e">>
      [] w = "stock is trading" -> 
            <<"s", "t", "o", "c", "k", " ", "i", "s", " ", "t", "r", "a", "d", 
              "i", "n", "g">>
      [] w = "stock price" -> 
            <<"s", "t", "o", "c", "k", " ", "p", "r", "i", "c", "e">>
      [] w = "summary view" -> 
            <<"s", "u", "m", "m", "a", "r", "y", " ", "v", "i", "e", "w">>
      [] w = "tailwind" -> 
            <<"t", "a", "i", "l", "w", "i", "n", "d">>
      [] w = "tailwinds" -> 
            <<"t", "a", "i", "l", "w", "i", "n", "d", "s">>
      [] w = "threat" -> 
            <<"t", "h", "r", "e", "a", "t">>
      [] w = "threats" -> 
            <<"t", "h", "r", "e", "a", "t", "s">>
      [] w = "today's price" -> 
            <<"t", "o", "d", "a", "y", "'", "s", " ", "p", "r", "i", "c", "e">>
      [] w = "todays price" -> 
            <<"t", "o", "d", "a", "y", "s", " ", "p", "r", "i", "c", "e">>
      [] w = "trading at" -> 
            <<"t", "r", "a", "d", "i", "n", "g", " ", "a", "t">>
      [] w = "uncertainty" -> 
            <<"u", "n", "c", "e", "r", "t", "a", "i", "n", "t", "y">>
      [] w = "valuation today" -> 
            <<"v", "a", "l", "u", "a", "t", "i", "o", "n", " ", "t", "o", "d", 
              "a", "y">>
      [] w = "volatility" -> 
            <<"v", "o", "l", "a", "t", "i", "l", "i", "t", "y">>
      [] w = "stock price?" -> 
            <<"s", "t", "o", "c", "k", " ", "p", "r", "i", "c", "e", "?">>
      [] w = "any  downside?" -> 
            <<"a", "n", "y", " ", " ", "d", "o", "w", "n", "s", "i", "d", "e", "?">>
      [] w = "Unknown company" -> 
            <<"U", "n", "k", "n", "o", "w", "n", " ", "c", "o", "m", "p", "a", 
              "n", "y">>
      [] w = "latest year" -> 
            <<"l", "a", "t", "e", "s", "t", " ", "y", "e", "a", "r">>
      [] w = "[TRUNCATED]" -> 
            <<"[", "T", "R", "U", "N", "C", "A", "T", "E", "D", "]">>
      [] w = "6" -> 
            <<"6">>
      [] w = "--" -> 
            <<"-", "-">>
      [] w = "-400" -> 
            <<"-", "4", "0", "0">>
      [] w = "400" -> 
            <<"4", "0", "0">>
      [] w = "per_period" -> 
            <<"p", "e", "r", "_", "p", "e", "r", "i", "o", "d">>
      [] w = "" -> <<>>

\* the context elements of the document: a period holds either an instant or
\* an end date
DocContexts ==
    << [id |-> "c1", period |-> TRUE, instant |-> None, endDate |-> <<P1>>],
       [id |-> "c2", period |-> TRUE, instant |-> None, endDate |-> <<P2>>],
       [id |-> "i2", period |-> TRUE, instant |-> <<P2>>, endDate |-> None] >>

\* the unit elements of the document: id and descriptive text
DocUnits ==
    << [id |-> Chars("usd"), text |-> Chars("USD")],
       [id |-> Chars("kusd"), text |-> Chars("USD thousand")] >>

RECURSIVE BuildContextPeriodMapFrom(_, _)
BuildContextPeriodMapFrom(ctxs, acc) ==
    IF ctxs = <<>> THEN acc
    ELSE LET ctx == Head(ctxs)
         IN  BuildContextPeriodMapFrom(Tail(ctxs),
                IF ctx.id = "" THEN acc
                ELSE IF ctx.instant # None THEN Put(acc, ctx.id, ctx.instant[1])
                ELSE IF ctx.endDate # None THEN Put(acc, ctx.id, ctx.endDate[1])
                ELSE acc)

_build_context_period_map(ctxs) == BuildContextPeriodMapFrom(ctxs, EmptyDict)

RECURSIVE BuildUnitMapFrom(_, _)
BuildUnitMapFrom(units, acc) ==
    IF units = <<>> THEN acc
    ELSE LET unit == Head(units)
         IN  BuildUnitMapFrom(Tail(units),
                IF unit.id = <<>> THEN acc ELSE Put(acc, unit.id, unit.text))

_build_unit_map(units) == BuildUnitMapFrom(units, EmptyDict)

-----------------------------------------------------------------------------
(* tools/adk_pdf_tools.py: the generic Fact Scanner *)

\* a text in parentheses is a negative number
Parenthesized(t) == t # <<>> /\ Head(t) = "(" /\ t[Len(t)] = ")"

NumberOfStripped(t) ==
    Negate(Parenthesized(t),
           PyFloat(Strip(Remove(Remove(Strip(t, {"(", ")"}), {"$"}), {","}), White)))

_safe_parse_number(text) == NumberOfStripped(Strip(text, White))

\* scale_decimals for decimals = <<d>>, or None
ScaleOfDecimals(decimals) ==
    IF decimals = None THEN <<1, 1>>
    ELSE IF decimals[1] < 0 THEN <<Pow10(Abs(decimals[1])), 1>>
    ELSE IF decimals[1] > 0 THEN <<1, Pow10(decimals[1])>>
    ELSE <<1, 1>>

\* the largest k for which the float 10.0 ** k exists; above it the power
\* raises OverflowError
MaxExp10 == 308

\* 10.0 ** abs(decimals) raises for the decimals attribute
ScaleOverflows(decimals_attr) ==
    /\ decimals_attr # None
    /\ PyInt(decimals_attr) # None
    /\ Abs(PyInt(decimals_attr)[1]) > MaxExp10

\* scale_decimals of a decimals attribute
ScaleDecimals(decimals_attr) ==
    ScaleOfDecimals(IF decimals_attr = None THEN None ELSE PyInt(decimals_attr))

ScaleOfDesc(unit_desc) ==
    IF Contains(unit_desc, Chars("thousand")) THEN <<1000, 1>>
    ELSE IF Contains(unit_desc, Chars("million")) THEN <<1000000, 1>>
    ELSE IF Contains(unit_desc, Chars("billion")) THEN <<1000000000, 1>>
    ELSE <<1, 1>>

\* (unit_map.get(unit_ref) or unit_ref or "").lower()
UnitDesc(mapped, unit_ref) == Lower(IF mapped # <<>> THEN mapped ELSE unit_ref)

\* scale_unit of a unitref
ScaleUnit(unit_ref, unit_map) == ScaleOfDesc(UnitDesc(Get(unit_map, unit_ref), unit_ref))

\* scaled_value of a tag whose number parsed
ScaledValue(tag, unit_map) ==
    RMul(RMul(_safe_parse_number(tag.text), ScaleDecimals(tag.decimals)),
         ScaleUnit(tag.unitref, unit_map))

\* the tag passes the scanner's early continues
Scannable(tag, context_period_map) ==
    /\ tag.name # ""
    /\ tag.contextref # ""
    /\ tag.contextref \in DOMAIN context_period_map
    /\ tag.text # <<>>
    /\ _safe_parse_number(tag.text) # None

\* the scan raises at a fact that passes the early continues
ScanRaises(tags, context_period_map) ==
    \E i \in 1..Len(tags) :
        Scannable(tags[i], context_period_map) /\ ScaleOverflows(tags[i].decimals)

\* concept_dict[period_end] = scaled_value
StoreValue(concept_dict, period_end, scaled_value) ==
    Put(concept_dict, period_end, scaled_value)

RECURSIVE ScanTags(_, _, _, _)
ScanTags(tags, context_period_map, unit_map, raw) ==
    IF tags = <<>> THEN raw
    ELSE LET tag == Head(tags)
         IN  ScanTags(Tail(tags), context_period_map, unit_map,
                IF ~Scannable(tag, context_period_map) THEN raw
                ELSE Put(raw, tag.name,
                         StoreValue(OrEmpty(Get(raw, tag.name)),
                                    context_period_map[tag.contextref],
                                    ScaledValue(tag, unit_map))))

concept_map ==
    [ revenue |->
        << "us-gaap:Revenues",
           "us-gaap:SalesRevenueNet",
           "us-gaap:RevenueFromContractWithCustomerExcludingAssessedTax" >>,
      total_current_assets |-> << "us-gaap:AssetsCurrent" >>,
      total_assets |-> << "us-gaap:Assets" >>,
      net_income |-> << "us-gaap:NetIncomeLoss", "us-gaap:ProfitLoss" >>,
      operating_cash_flow |->
        << "us-gaap:NetCashProvidedByUsedInOperatingActivities" >>,
      capital_expenditures |->
        << "us-gaap:PaymentsToAcquirePropertyPlantAndEquipment",
           "us-gaap:CapitalExpendituresIncurredButNotYetPaid" >>,
      operating_income |-> << "us-gaap:OperatingIncomeLoss" >>,
      depreciation_amortization |->
        << "us-gaap:DepreciationDepletionAndAmortization",
           "us-gaap:DepreciationAndAmortization" >>,
      weighted_avg_shares_diluted |->
        << "us-gaap:WeightedAverageNumberOfDilutedSharesOutstanding",
           "us-gaap:WeightedAverageNumberOfShareOutstandingDiluted" >>,
      weighted_avg_shares_basic |->
        << "us-gaap:WeightedAverageNumberOfSharesOutstandingBasic" >>,
      common_shares_outstanding |->
        << "us-gaap:CommonStockSharesOutstanding",
           "us-gaap:EntityCommonStockSharesOutstanding" >>,
      shares_outstanding |->
        << "us-gaap:CommonStockSharesOutstanding",
           "us-gaap:EntityCommonStockSharesOutstanding",
           "us-gaap:WeightedAverageNumberOfDilutedSharesOutstanding",
           "us-gaap:WeightedAverageNumberOfSharesOutstandingBasic" >> ]

\* for period_end, value in period_map.items(): merged[period_end] = value
MergePeriods(merged, period_map) ==
    [p \in (DOMAIN merged) \cup (DOMAIN period_map) |->
        IF p \in DOMAIN period_map THEN period_map[p] ELSE merged[p]]

RECURSIVE MergeConcepts(_, _, _)
MergeConcepts(concept_list, raw, merged) ==
    IF concept_list = <<>> THEN merged
    ELSE LET period_map == Get(raw, Head(concept_list))
         IN  MergeConcepts(Tail(concept_list), raw,
                IF period_map = None \/ period_map = EmptyDict THEN merged
                ELSE MergePeriods(merged, period_map))

\* result: the friendly keys that have at least one period
NonEmptyEntries(merged) ==
    [k \in {x \in DOMAIN merged : merged[x] # EmptyDict} |-> merged[k]]

MapConcepts(raw) ==
    NonEmptyEntries([k \in DOMAIN concept_map |->
                        MergeConcepts(concept_map[k], raw, EmptyDict)])

_extract_key_facts_from_ixbrl(tags, context_period_map, unit_map) ==
    MapConcepts(ScanTags(tags, context_period_map, unit_map, EmptyDict))

\* the "facts" entry of what parse_10k_html_ixbrl returns for a readable file
parse_10k_html_ixbrl(tags) ==
    _extract_key_facts_from_ixbrl(tags, _build_context_period_map(DocContexts),
                                  _build_unit_map(DocUnits))

-----------------------------------------------------------------------------
(* agents/extraction_agent_adk.py: the Revenue Reconciler *)

RECURSIVE ContextEndByIdFrom(_, _)
ContextEndByIdFrom(ctxs, acc) ==
    IF ctxs = <<>> THEN acc
    ELSE LET ctx == Head(ctxs)
             end_or_instant == IF ctx.instant # None THEN ctx.instant
                               ELSE ctx.endDate
         IN  ContextEndByIdFrom(Tail(ctxs),
                IF ctx.id = "" \/ ~ctx.period \/ end_or_instant = None THEN acc
                ELSE Put(acc, ctx.id, end_or_instant[1]))

context_end_by_id(ctxs) == ContextEndByIdFrom(ctxs, EmptyDict)

REVENUE_CONCEPTS ==
    { "us-gaap:Revenues",
      "us-gaap:RevenueFromContractWithCustomerExcludingAssessedTax" }

\* raw_text of a fact
RawText(tag) == Remove(Strip(tag.text, White), {","})

\* str(fact.get("name") or "").strip(), for the names of the documents
NameStripped(name) ==
    CASE name = " us-gaap:Revenues" -> "us-gaap:Revenues"
      [] OTHER -> name

\* the fact passes the reconciler's early continues
Tracked(tag, ctx_map) ==
    /\ NameStripped(tag.name) \in REVENUE_CONCEPTS
    /\ tag.contextref # ""
    /\ tag.contextref \in DOMAIN ctx_map
    /\ RawText(tag) # <<>>
    /\ PyFloat(RawText(tag)) # None

\* scaled_val for raw_val and decimals = <<d>>, or None when the attribute
\* is absent or int() raised
\* the product of raw_val and an int above the largest float raises, and the
\* except clause keeps raw_val
DirectScaleOf(raw_val, d) ==
    IF d # None /\ d[1] < 0 /\ 0 - d[1] <= MaxExp10
    THEN RMul(raw_val, <<Pow10(0 - d[1]), 1>>)
    ELSE raw_val

\* scaled_val of a tracked fact
DirectScaled(tag) ==
    DirectScaleOf(PyFloat(RawText(tag)),
                  IF tag.decimals = None THEN None ELSE PyInt(tag.decimals))

KeepLarger_KeepLast(prev, scaled_val) == scaled_val

\* if prev is None or scaled_val > prev: revenue_by_period[period_str] = scaled_val
KeepLarger(prev, scaled_val) ==
    IF prev = None \/ RLt(prev, scaled_val) THEN scaled_val ELSE prev

RECURSIVE ScanRevenue(_, _, _)
ScanRevenue(tags, ctx_map, acc) ==
    IF tags = <<>> THEN acc
    ELSE LET tag == Head(tags)
         IN  ScanRevenue(Tail(tags), ctx_map,
                IF ~Tracked(tag, ctx_map) THEN acc
                ELSE Put(acc, ctx_map[tag.contextref],
                         KeepLarger(Get(acc, ctx_map[tag.contextref]),
                                    DirectScaled(tag))))

\* open(doc_path, "r", encoding="utf-8") and f.read() raise for a file that
\* is missing or holds bytes that are not UTF-8
OpensAsUtf8(f) == f = "utf8"

\* the tags are the file's ix:nonFraction elements; {} when the read raised
_extract_revenue_direct_from_file(f, tags) ==
    IF OpensAsUtf8(f) THEN ScanRevenue(tags, context_end_by_id(DocContexts), EmptyDict)
    ELSE EmptyDict

FixRevenue_PerPeriodPatch(facts, direct) ==
    IF direct = EmptyDict THEN facts
    ELSE Put(facts, "revenue", MergePeriods(OrEmpty(Get(facts, "revenue")), direct))

\* facts after _fix_revenue_from_ixbrl, given what the direct pass returned;
\* parse_10k_html_ixbrl returns no ixbrl_facts, raw_ixbrl_facts or facts_list
\* entry, so the pass is always the direct one
_fix_revenue_from_ixbrl(facts, direct) ==
    IF direct = EmptyDict THEN facts
    ELSE Put(facts, "revenue", direct)

\* periods of a Fact Table
AllPeriods(facts) == UNION {DOMAIN facts[m] : m \in DOMAIN facts}

Min(S) == CHOOSE x \in S : \A y \in S : x <= y

Max(S) == CHOOSE x \in S : \A y \in S : y <= x

\* sorted(S)
RECURSIVE Sorted(_)
Sorted(S) == IF S = {} THEN <<>> ELSE Append(Sorted(S \ {Max(S)}), Max(S))

-----------------------------------------------------------------------------
(* ExtractionAgent._run_async_impl *)

\* the state_delta applied to the session state
ExtractionDelta(parsed, facts, available_periods) ==
    [k \in (DOMAIN state) \cup {"extraction", "financials_raw"}
              \cup (IF parsed.ticker # None THEN {"ticker", "symbol"} ELSE {})
              \cup (IF available_periods # <<>> THEN {"available_periods"} ELSE {}) |->
        IF k = "extraction" THEN parsed
        ELSE IF k = "financials_raw" THEN facts
        ELSE IF k = "ticker" THEN parsed.ticker
        ELSE IF k = "symbol" THEN parsed.ticker
        ELSE IF k = "available_periods" THEN available_periods
        ELSE state[k]]

\* what parse_10k_html_ixbrl returns around the facts
Parsed(facts) == [ticker |-> trading_symbol, symbol |-> trading_symbol, facts |-> facts]

\* facts is parsed["facts"] itself unless that dict is empty
EmitExtraction(raw, generic, direct, facts) ==
    /\ raw_values_by_concept' = raw
    /\ parsed_facts' = generic
    /\ revenue_by_period' = direct
    /\ state' = ExtractionDelta(Parsed(IF generic = EmptyDict THEN generic ELSE facts),
                                facts, Sorted(AllPeriods(facts)))

FixAndEmit(raw, generic, direct) ==
    EmitExtraction(raw, generic, direct, _fix_revenue_from_ixbrl(generic, direct))

ExtractFrom(raw, direct) == FixAndEmit(raw, MapConcepts(raw), direct)

\* state.get("report_path") or state.get("html_path") or state.get("pdf_path")
HasDocPath(st) == {"report_path", "html_path", "pdf_path"} \cap DOMAIN st # {}

\* _read_file_text: Path.exists() and read_text(encoding="utf-8", errors="ignore")
Readable(f) == f # "missing"

\* parse_10k_html_ixbrl raises: the file is missing or the scan raises
ParseRaises(f, tags) ==
    ~Readable(f) \/ ScanRaises(tags, _build_context_period_map(DocContexts))

ExtractionAgentAt(at, to) ==
    /\ pc = at
    /\ IF ~HasDocPath(state) \/ ParseRaises(file, doc)
       THEN /\ raised' = raised \cup {"ExtractionAgent"}
            /\ pc' = "failed"
            /\ UNCHANGED <<state, raw_values_by_concept, parsed_facts, revenue_by_period>>
       ELSE /\ ExtractFrom(ScanTags(doc, _build_context_period_map(DocContexts),
                                    _build_unit_map(DocUnits), EmptyDict),
                           _extract_revenue_direct_from_file(file, doc))
            /\ pc' = to
            /\ UNCHANGED raised
    /\ UNCHANGED <<doc, file, trading_symbol, reordered_facts, core_result>>
    /\ UNCHANGED textVars

ExtractionAgentRun == ExtractionAgentAt("start", "extracted") /\ UNCHANGED ran

\* the tags of d in the order perm
Reorder(d, perm) == [i \in 1..Len(d) |-> d[perm[i]]]

\* parse_10k_html_ixbrl on a document holding the same facts in another order
ParseReordered ==
    /\ pc = "extracted"
    /\ \E perm \in Permutations(1..Len(doc)) :
          reordered_facts' = parse_10k_html_ixbrl(Reorder(doc, perm))
    /\ pc' = "reparsed"
    /\ UNCHANGED <<doc, file, ran, trading_symbol, raw_values_by_concept, parsed_facts, revenue_by_period,
                   state, raised, core_result>>
    /\ UNCHANGED textVars

-----------------------------------------------------------------------------
(* Documents *)

MaxFacts == 2

Tag(name, contextref, text, decimals, unitref) ==
    [name |-> name, contextref |-> contextref, text |-> Chars(text),
     decimals |-> Chars(decimals), unitref |-> Chars(unitref)]

\* facts of the revenue concepts and of net income, unscaled
PlainTags ==
    { Tag(n, c, t, "", "usd") :
        n \in { "us-gaap:Revenues", "us-gaap:SalesRevenueNet",
                "us-gaap:RevenueFromContractWithCustomerExcludingAssessedTax",
                "us-gaap:NetIncomeLoss" },
        c \in {"c1", "c2"},
        t \in {"100", "120"} }

\* facts in every text, decimals and unit form
ScaledTags ==
    { Tag(n, "c1", t, d, u) :
        n \in {"us-gaap:Revenues", "us-gaap:NetIncomeLoss"},
        t \in {"100", "1,250", "(50)", "$7.5", "n/a"},
        d \in {"", "-2", "-1", "0", "1", "2", "INF"},
        u \in {"usd", "kusd", "thousand", ""} }

SeqsUpTo(S, n) == UNION {[1..k -> S] : k \in 0..n}

\* facts that both passes read
GoodTags ==
    { Tag("us-gaap:Revenues", "c1", "100", "", "usd"),
      Tag("us-gaap:Revenues", "c2", "120", "2", "usd"),
      Tag("us-gaap:NetIncomeLoss", "c2", "120", "", "usd") }

\* facts whose context is not in the document or whose text is no number
BadTags ==
    { Tag("us-gaap:Revenues", "cx", "120", "", "usd"),
      Tag("us-gaap:Revenues", "c2", "n/a", "", "usd"),
      Tag("us-gaap:NetIncomeLoss", "c1", "n/a", "-400", "usd"),
      Tag("us-gaap:NetIncomeLoss", "cx", "100", "400", "usd") }

\* facts whose decimals are beyond the exponents of a float
OverflowTags ==
    { Tag(n, "c1", "100", d, "usd") :
        n \in {"us-gaap:Revenues", "us-gaap:NetIncomeLoss"}, d \in {"-400", "400"} }

\* documents with a bad fact before, between or after the other facts
BadFactDocs ==
    { d \in SeqsUpTo(GoodTags \cup BadTags, MaxFacts + 1) :
        \E i \in 1..Len(d) : d[i] \in BadTags }

\* a revenue fact whose name attribute starts with a space
PaddedTags == { Tag(" us-gaap:Revenues", c, "100", "", "usd") : c \in {"c1", "c2"} }

\* the fact alone, and before and after another fact
PaddedDocs ==
    UNION { {<<t>>, <<g, t>>, <<t, g>>} : g \in GoodTags \cup PaddedTags, t \in PaddedTags }

OverflowDocs ==
    UNION { {<<o>>, <<g, o>>, <<o, g>>} : g \in GoodTags \cup BadTags, o \in OverflowTags }

Docs ==
    SeqsUpTo(PlainTags, MaxFacts) \cup {<<t>> : t \in ScaledTags}
        \cup BadFactDocs \cup OverflowDocs \cup PaddedDocs

\* the file at the document path: UTF-8 text, text with bytes that are not
\* UTF-8, or no file
Files == {"utf8", "not_utf8", "missing"}

\* the session state before the pipeline runs, with and without a path
DocStates == {[report_path |-> "filing.html"], [html_path |-> "filing.html"], EmptyDict}

\* the documents tried with every kind of file and of session state
FileDocs == SeqsUpTo(GoodTags, MaxFacts) \cup {<<t>> : t \in ScaledTags}

Init ==
    /\ doc \in Docs
    /\ file \in Files
    /\ ran = <<>>
    /\ html_nodes = <<>>
    /\ section_map = None
    /\ QaIdle
    /\ trading_symbol = None
    /\ pc = "start"
    /\ raw_values_by_concept = EmptyDict
    /\ parsed_facts = EmptyDict
    /\ revenue_by_period = EmptyDict
    /\ reordered_facts = EmptyDict
    /\ state \in DocStates
    /\ (file = "utf8" /\ "report_path" \in DOMAIN state) \/ doc \in FileDocs
    /\ raised = {}
    /\ core_result = EmptyDict

Next == ExtractionAgentRun \/ ParseReordered

Spec == Init /\ [][Next]_vars

-----------------------------------------------------------------------------
(* tools/financial_calcs.py *)

\* the entries of a record that hold a value: a key is stored only with one
Present(full) == [k \in {x \in DOMAIN full : full[x] # None} |-> full[k]]

_get_value(facts, metric, period) == Get(OrEmpty(Get(facts, metric)), period)

\* the first non-None value among the metric names
RECURSIVE _get_any_value(_, _, _)
_get_any_value(facts, metric_names, period) ==
    IF metric_names = <<>> THEN None
    ELSE IF _get_value(facts, Head(metric_names), period) # None
    THEN _get_value(facts, Head(metric_names), period)
    ELSE _get_any_value(facts, Tail(metric_names), period)

safe_div(a, b) == IF IsZero(b) THEN Zero ELSE RDiv(a, b)

\* a value that needs both inputs
IfBoth(a, b, v) == IF a # None /\ b # None THEN v ELSE None

\* ebitda_val += x, if x is not None
AddIfPresent(ebitda_val, x) == IF x # None THEN RAdd(ebitda_val, x) ELSE ebitda_val

\* Net Income + Interest + Taxes + D&A
CoreEbitda(net_income, interest, income_tax, d_and_a) ==
    IF net_income = None THEN None
    ELSE AddIfPresent(AddIfPresent(AddIfPresent(net_income, interest), income_tax),
                      d_and_a)

CoreDiff(a, b) == IF a # None /\ b # None THEN RSub(a, b) ELSE None

CoreMargin(v, revenue) == IF v # None /\ revenue # None THEN safe_div(v, revenue) ELSE None

CoreRecord(revenue, net_income, op_cf, capex, operating_income, gross_profit, ebitda, fcf) ==
    Present([ revenue |-> revenue,
              net_income |-> net_income,
              operating_cash_flow |-> op_cf,
              capital_expenditures |-> capex,
              gross_profit |-> gross_profit,
              gross_margin |-> CoreMargin(gross_profit, revenue),
              operating_income |-> IfBoth(revenue, operating_income, operating_income),
              operating_margin |-> CoreMargin(operating_income, revenue),
              ebitda |-> ebitda,
              ebitda_margin |-> CoreMargin(ebitda, revenue),
              net_margin |-> CoreMargin(net_income, revenue),
              fcf |-> fcf,
              fcf_margin |-> CoreMargin(fcf, revenue) ])

CoreDerive(revenue, net_income, op_cf, capex, cost_of_sales, operating_income, interest, income_tax, d_and_a) ==
    CoreRecord(revenue, net_income, op_cf, capex, operating_income,
               CoreDiff(revenue, cost_of_sales),
               CoreEbitda(net_income, interest, income_tax, d_and_a),
               CoreDiff(op_cf, capex))

_compute_metrics_for_period(facts, period) ==
    CoreDerive(_get_any_value(facts, <<"net_sales", "revenue">>, period),
               _get_value(facts, "net_income", period),
               _get_value(facts, "operating_cash_flow", period),
               _get_value(facts, "capital_expenditures", period),
               _get_value(facts, "cost_of_sales", period),
               _get_value(facts, "operating_income", period),
               _get_any_value(facts, <<"interest_expense", "interest_and_other_expense",
                                       "interest_and_other">>, period),
               _get_any_value(facts, <<"income_tax_expense",
                                       "provision_for_income_taxes">>, period),
               _get_any_value(facts, <<"depreciation_and_amortization",
                                       "depreciation_amortization">>, period))

metrics_to_track ==
    [ revenue_growth |-> "revenue", net_income_growth |-> "net_income",
      fcf_growth |-> "fcf", ebitda_growth |-> "ebitda" ]

\* (current_val - prev_val) / prev_val, or None where the loop continues
CoreGrowth(current_val, prev_val) ==
    IF current_val = None \/ prev_val = None THEN None
    ELSE IF IsZero(prev_val) THEN None
    ELSE RDiv(RSub(current_val, prev_val), prev_val)

IndexOf(seq, x) == CHOOSE i \in 1..Len(seq) : seq[i] = x

Range(seq) == {seq[i] : i \in 1..Len(seq)}

\* the growth of metric at sorted_periods[idx], idx > 1
GrowthAt(per_period, sorted_periods, metric, idx) ==
    CoreGrowth(Get(OrEmpty(Get(per_period, sorted_periods[idx])), metric),
               Get(OrEmpty(Get(per_period, sorted_periods[idx - 1])), metric))

\* growth_map of one metric over sorted_periods
GrowthMap(per_period, sorted_periods, metric) ==
    Present([p \in {sorted_periods[i] : i \in 2..Len(sorted_periods)} |->
        GrowthAt(per_period, sorted_periods, metric, IndexOf(sorted_periods, p))])

_compute_yoy_growth(per_period, periods) ==
    [g \in DOMAIN metrics_to_track |->
        GrowthMap(per_period, Sorted(Range(periods)), metrics_to_track[g])]

CoreResult(facts, periods, per_period) ==
    [periods |-> periods, per_period |-> per_period,
     yoy |-> _compute_yoy_growth(per_period, periods)]

CorePerPeriod(facts, periods) ==
    CoreResult(facts, periods,
               [p \in Range(periods) |-> _compute_metrics_for_period(facts, p)])

compute_core_metrics(facts) == CorePerPeriod(facts, Sorted(AllPeriods(facts)))

-----------------------------------------------------------------------------
(* tools/adk_finance_tools.py *)

\* the tags _copy_metric looks up for each canonical metric name
copy_metric_sources ==
    [ revenue |-> << "NetSales", "RevenueFromContractWithCustomer",
                     "SalesRevenueNet", "Revenues" >>,
      cost_of_sales |-> << "CostOfSales", "CostOfGoodsAndServicesSold",
                           "CostOfGoodsSold" >>,
      operating_income |-> << "OperatingIncomeLoss", "OperatingIncome" >>,
      net_income |-> << "NetIncomeLoss", "NetIncome" >>,
      operating_cash_flow |->
        << "NetCashProvidedByUsedInOperatingActivities",
           "NetCashProvidedByUsedInOperatingActivitiesContinuingOperations" >>,
      capital_expenditures |-> << "PaymentsToAcquirePropertyPlantAndEquipment",
                                  "CapitalExpenditures" >>,
      interest_expense |-> << "InterestExpense", "InterestAndDebtExpense" >>,
      income_tax_expense |-> << "IncomeTaxExpenseBenefit", "ProvisionForIncomeTaxes" >>,
      depreciation_and_amortization |->
        << "DepreciationDepletionAndAmortization", "DepreciationAndAmortization" >> ]

\* the first of the keys that holds a non-empty value in d, else {}
RECURSIVE FirstNonEmpty(_, _)
FirstNonEmpty(d, keys) ==
    IF keys = <<>> THEN EmptyDict
    ELSE IF OrEmpty(Get(d, Head(keys))) # EmptyDict THEN d[Head(keys)]
    ELSE FirstNonEmpty(d, Tail(keys))

\* facts as the calls of _copy_metric leave it
CopyMetrics(ix) ==
    NonEmptyEntries([k \in DOMAIN copy_metric_sources |->
                        FirstNonEmpty(ix, copy_metric_sources[k])])

build_facts_from_extraction(extraction) ==
    IF OrEmpty(Get(extraction, "facts")) # EmptyDict THEN extraction["facts"]
    ELSE CopyMetrics(FirstNonEmpty(extraction, <<"ixbrl_facts", "facts_raw", "raw_facts">>))

compute_financial_metrics_from_extraction(extraction) ==
    compute_core_metrics(build_facts_from_extraction(extraction))

\* a call of compute_financial_metrics_from_extraction on state["extraction"]
CoreMetricsCall ==
    /\ pc = "extracted"
    /\ core_result' = compute_financial_metrics_from_extraction(state["extraction"])
    /\ pc' = "core"
    /\ UNCHANGED <<doc, file, ran, trading_symbol, raw_values_by_concept, parsed_facts, revenue_by_period,
                   reordered_facts, state, raised>>
    /\ UNCHANGED textVars

-----------------------------------------------------------------------------
(* agents/financial_agent_adk.py *)

_safe_growth(curr, prev) ==
    IF curr = None \/ prev = None THEN None
    ELSE IF IsZero(prev) THEN None
    ELSE RDiv(RSub(curr, prev), RAbs(prev))

_get_for_period(facts, friendly_key, period) ==
    Get(OrEmpty(Get(facts, friendly_key)), period)

FinancialEbitda(operating_income, d_and_a, net_income) ==
    IF operating_income # None /\ d_and_a # None THEN RAdd(operating_income, d_and_a)
    ELSE IF operating_income # None THEN operating_income
    ELSE IF d_and_a # None /\ net_income # None THEN RAdd(net_income, d_and_a)
    ELSE net_income

\* a free cash flow that counts a missing capital expenditure as 0
FinancialFcf_ZeroCapex(ocf, capex) ==
    IF ocf = None THEN None
    ELSE IF capex = None THEN ocf
    ELSE RSub(ocf, capex)

FinancialFcf(ocf, capex) == IF ocf # None /\ capex # None THEN RSub(ocf, capex) ELSE None

\* v / revenue inside "if revenue and revenue != 0"
FinancialMargin(v, revenue) ==
    IF revenue = None \/ v = None THEN None
    ELSE IF IsZero(revenue) THEN None
    ELSE RDiv(v, revenue)

FinancialRecord(revenue, net_income, ocf, capex, operating_income, d_and_a, ebitda, fcf) ==
    [ revenue |-> revenue,
      net_income |-> net_income,
      operating_cash_flow |-> ocf,
      capital_expenditures |-> capex,
      operating_income |-> operating_income,
      depreciation_amortization |-> d_and_a,
      ebitda |-> ebitda,
      ebitda_margin |-> FinancialMargin(ebitda, revenue),
      net_margin |-> FinancialMargin(net_income, revenue),
      fcf |-> fcf,
      fcf_margin |-> FinancialMargin(fcf, revenue) ]

FinancialDerive(revenue, net_income, ocf, capex, operating_income, d_and_a) ==
    FinancialRecord(revenue, net_income, ocf, capex, operating_income, d_and_a,
                    FinancialEbitda(operating_income, d_and_a, net_income),
                    FinancialFcf(ocf, capex))

\* metrics of a period before the growth fields
PeriodMetrics(facts, period) ==
    FinancialDerive(_get_for_period(facts, "revenue", period),
                    _get_for_period(facts, "net_income", period),
                    _get_for_period(facts, "operating_cash_flow", period),
                    _get_for_period(facts, "capital_expenditures", period),
                    _get_for_period(facts, "operating_income", period),
                    _get_for_period(facts, "depreciation_amortization", period))

\* metrics of a period that has a prev_period
WithGrowth(metrics, prev_metrics) ==
    [k \in (DOMAIN metrics) \cup (DOMAIN metrics_to_track) |->
        IF k \in DOMAIN metrics THEN metrics[k]
        ELSE _safe_growth(metrics[metrics_to_track[k]],
                          Get(prev_metrics, metrics_to_track[k]))]

\* financial_metrics[periods[idx]]
MetricsAt(facts, periods, idx) ==
    IF idx = 1 THEN PeriodMetrics(facts, periods[idx])
    ELSE WithGrowth(PeriodMetrics(facts, periods[idx]),
                    PeriodMetrics(facts, periods[idx - 1]))

FinancialMetrics(facts, periods) ==
    [p \in Range(periods) |-> MetricsAt(facts, periods, IndexOf(periods, p))]

GrowthFields(latest_metrics) ==
    [k \in (DOMAIN latest_metrics) \cap (DOMAIN metrics_to_track) |-> latest_metrics[k]]

MemoFinancials(facts, financial_metrics, key_period) ==
    [ latest_metrics |-> financial_metrics[key_period],
      yoy_metrics |-> GrowthFields(financial_metrics[key_period]),
      financials_raw |-> facts,
      financial_metrics |-> financial_metrics,
      key_period |-> key_period,
      company |-> Get(state, "company"),
      ticker |-> Get(state, "ticker"),
      symbol |-> Get(state, "symbol") ]

FinancialDelta(facts, financial_metrics, key_period) ==
    [k \in (DOMAIN state) \cup {"financial_metrics", "memo_financials", "key_period"} |->
        IF k = "financial_metrics" THEN financial_metrics
        ELSE IF k = "memo_financials"
        THEN MemoFinancials(facts, financial_metrics, key_period)
        ELSE IF k = "key_period" THEN key_period
        ELSE state[k]]

KeyPeriodOf_First(periods) == periods[1]

\* key_period = periods[-1]
KeyPeriodOf(periods) == periods[Len(periods)]

\* FinancialAgent._run_async_impl
FinancialAgentAt(at, to) ==
    /\ pc = at
    /\ IF OrEmpty(Get(state, "available_periods")) = <<>>
       THEN /\ raised' = raised \cup {"FinancialAgent"}
            /\ pc' = "failed"
            /\ UNCHANGED state
       ELSE /\ state' = FinancialDelta(
                            OrEmpty(Get(state, "financials_raw")),
                            FinancialMetrics(OrEmpty(Get(state, "financials_raw")),
                                             state["available_periods"]),
                            KeyPeriodOf(state["available_periods"]))
            /\ pc' = to
            /\ UNCHANGED raised
    /\ UNCHANGED <<doc, file, trading_symbol, raw_values_by_concept, parsed_facts, revenue_by_period,
                   reordered_facts, core_result>>
    /\ UNCHANGED textVars

FinancialAgentRun == FinancialAgentAt("extracted", "financial") /\ UNCHANGED ran

-----------------------------------------------------------------------------
(* agents/live_market_agent_adk.py *)

\* state.get("ticker") or state.get("symbol") or state.get("company_ticker")
LiveSymbol(st) ==
    IF Get(st, "ticker") # None THEN st["ticker"]
    ELSE IF Get(st, "symbol") # None THEN st["symbol"]
    ELSE Get(st, "company_ticker")

\* the time of the request, datetime.now(timezone.utc).isoformat()
NowUtc == <<"n", "o", "w">>

\* what the quote service may answer: no answer at all (the request raises),
\* or a JSON body with the fields c, pc, h, l and o
QuoteResponses ==
    { None,
      [c |-> None, pc |-> None, h |-> None, l |-> None, o |-> None],
      [c |-> <<0, 1>>, pc |-> <<0, 1>>, h |-> <<0, 1>>, l |-> <<0, 1>>, o |-> <<0, 1>>],
      [c |-> <<10, 1>>, pc |-> <<8, 1>>, h |-> <<12, 1>>, l |-> <<7, 1>>, o |-> <<9, 1>>] }

QuoteChange(current, prev_close) ==
    IF current = None \/ prev_close = None THEN None
    ELSE IF IsZero(prev_close) THEN None
    ELSE RSub(current, prev_close)

QuoteChangePct(change, prev_close) ==
    IF change = None THEN None ELSE RMul(RDiv(change, prev_close), <<100, 1>>)

\* the quote before the request
EmptyQuote(symbol) ==
    [ symbol |-> symbol, current_price |-> None, high_price |-> None,
      low_price |-> None, open_price |-> None, previous_close_price |-> None,
      change |-> None, change_percent |-> None, as_of |-> NowUtc ]

\* quote.update(...) with the fields of the body
UpdatedQuote(symbol, data, change) ==
    [ symbol |-> symbol,
      current_price |-> data.c,
      high_price |-> data.h,
      low_price |-> data.l,
      open_price |-> data.o,
      previous_close_price |-> data.pc,
      change |-> change,
      change_percent |-> QuoteChangePct(change, data.pc),
      as_of |-> NowUtc ]

Quote(symbol, data) ==
    IF data = None THEN EmptyQuote(symbol)
    ELSE UpdatedQuote(symbol, data, QuoteChange(data.c, data.pc))

LiveDelta(quote) ==
    [k \in (DOMAIN state) \cup {"live_stock", "live_quote"} |->
        IF k \in {"live_stock", "live_quote"} THEN quote ELSE state[k]]

\* LiveMarketStateAgent._run_async_impl, which the pipeline runs before
\* ValuationAgent
LiveMarketStateAgentAt(at, to) ==
    /\ pc = at
    /\ IF LiveSymbol(state) = None
       THEN UNCHANGED state
       ELSE \E data \in QuoteResponses : state' = LiveDelta(Quote(LiveSymbol(state), data))
    /\ pc' = to
    /\ UNCHANGED <<doc, file, trading_symbol, raw_values_by_concept, parsed_facts,
                   revenue_by_period, reordered_facts, raised, core_result>>
    /\ UNCHANGED textVars

LiveMarketStateAgentRun == LiveMarketStateAgentAt("financial", "live") /\ UNCHANGED ran

-----------------------------------------------------------------------------
(* agents/valuation_agent_adk.py *)

\* the order with the weighted averages tried first
share_keys_order_WeightedFirst ==
    << "weighted_avg_shares_diluted", "weighted_avg_shares_basic",
       "common_shares_outstanding", "shares_outstanding" >>

share_keys_order ==
    << "common_shares_outstanding", "shares_outstanding",
       "weighted_avg_shares_diluted", "weighted_avg_shares_basic" >>

\* the first key of the order with a value for key_period, as <<key>>, or None
RECURSIVE SharesSource(_, _, _)
SharesSource(facts, keys, key_period) ==
    IF keys = <<>> THEN None
    ELSE IF Get(OrEmpty(Get(facts, Head(keys))), key_period) # None THEN <<Head(keys)>>
    ELSE SharesSource(facts, Tail(keys), key_period)

SharesRaw(facts, shares_source, key_period) ==
    IF shares_source = None THEN None ELSE facts[shares_source[1]][key_period]

MarketCap(current_price, shares) ==
    IF current_price # None /\ shares # None THEN RMul(current_price, shares) ELSE None

\* "if net_income:" is false for None and for 0
Pe(market_cap, net_income) ==
    IF market_cap = None \/ net_income = None THEN None
    ELSE IF IsZero(net_income) THEN None
    ELSE RDiv(market_cap, net_income)

\* "if fcf and market_cap:" is false when either is None or 0
FcfYield(market_cap, fcf) ==
    IF market_cap = None \/ fcf = None THEN None
    ELSE IF IsZero(fcf) \/ IsZero(market_cap) THEN None
    ELSE RDiv(fcf, market_cap)

Scaled(v, factor) == IF v = None THEN None ELSE RMul(v, factor)

\* fcf_yield_pct stands for the number its text shows
ValuationRecord(current_price, revenue, shares_raw, shares_source, market_cap, pe, fcf_yield, key_period) ==
    [ current_price |-> current_price,
      revenue |-> revenue,
      shares_raw |-> shares_raw,
      shares_source |-> shares_source,
      shares |-> shares_raw,
      market_cap |-> market_cap,
      market_cap_millions |-> Scaled(market_cap, <<1, 1000000>>),
      pe |-> pe,
      fcf_yield |-> fcf_yield,
      fcf_yield_pct |-> Scaled(fcf_yield, <<100, 1>>),
      key_period |-> key_period ]

ValuationRatios(current_price, revenue, net_income, fcf, shares_raw, shares_source, market_cap, key_period) ==
    ValuationRecord(current_price, revenue, shares_raw, shares_source, market_cap,
                    Pe(market_cap, net_income), FcfYield(market_cap, fcf), key_period)

ValuationShares(current_price, metrics, facts, shares_source, key_period) ==
    ValuationRatios(current_price, Get(metrics, "revenue"), Get(metrics, "net_income"),
                    Get(metrics, "fcf"),
                    SharesRaw(facts, shares_source, key_period), shares_source,
                    MarketCap(current_price, SharesRaw(facts, shares_source, key_period)),
                    <<key_period>>)

\* financial_metrics.get(key_period) or memo_financials.get("latest_metrics") or {}
ValuationInputs(st, key_period) ==
    IF OrEmpty(Get(OrEmpty(Get(st, "financial_metrics")), key_period)) # EmptyDict
    THEN st["financial_metrics"][key_period]
    ELSE OrEmpty(Get(OrEmpty(Get(st, "memo_financials")), "latest_metrics"))

\* state.get("live_quote") or state.get("live_stock") or {}
LiveQuote(st) ==
    IF OrEmpty(Get(st, "live_quote")) # EmptyDict THEN st["live_quote"]
    ELSE OrEmpty(Get(st, "live_stock"))

ValuationFor(st, key_period) ==
    ValuationShares(Get(LiveQuote(st), "current_price"),
                    ValuationInputs(st, key_period),
                    OrEmpty(Get(st, "financials_raw")),
                    SharesSource(OrEmpty(Get(st, "financials_raw")), share_keys_order,
                                 key_period),
                    key_period)

\* the record written when there is no key period and no period
NoPeriodsRecord ==
    ValuationRecord(None, None, None, None, None, None, None, None)

\* key_period as <<period>>, or None; the state holds the key either with a
\* period or not at all
ValuationKeyPeriod(st) ==
    IF "key_period" \in DOMAIN st THEN <<st["key_period"]>>
    ELSE IF OrEmpty(Get(st, "available_periods")) # <<>>
    THEN <<st["available_periods"][Len(st["available_periods"])]>>
    ELSE None

\* ValuationAgent._run_async_impl, which the pipeline runs after
\* LiveMarketStateAgent
ValuationAgentAt(at, to) ==
    /\ pc = at
    /\ state' = Put(state, "valuation_metrics",
                    IF ValuationKeyPeriod(state) = None THEN NoPeriodsRecord
                    ELSE ValuationFor(state, ValuationKeyPeriod(state)[1]))
    /\ pc' = to
    /\ UNCHANGED <<doc, file, trading_symbol, raw_values_by_concept, parsed_facts, revenue_by_period,
                   reordered_facts, raised, core_result>>
    /\ UNCHANGED textVars

ValuationAgentRun == ValuationAgentAt("live", "valued") /\ UNCHANGED ran

-----------------------------------------------------------------------------
(* Documents of the metrics pipeline *)

\* a fact that may be missing from the document
Optional(name, contextref, texts) ==
    {<<>>} \cup {<<Tag(name, contextref, t, "", "usd")>> : t \in texts}

\* operating cash flow alone or with capital expenditures, or neither
CashFacts(contextref, ocf, capex) ==
    { <<>>,
      <<Tag("us-gaap:NetCashProvidedByUsedInOperatingActivities", contextref, ocf,
            "", "usd")>>,
      <<Tag("us-gaap:NetCashProvidedByUsedInOperatingActivities", contextref, ocf,
            "", "usd"),
        Tag("us-gaap:PaymentsToAcquirePropertyPlantAndEquipment", contextref, capex,
            "", "usd")>> }

\* the facts of the earlier period
P1Rows ==
    { r \o n \o c :
        r \in Optional("us-gaap:Revenues", "c1", {"0", "100"}),
        n \in Optional("us-gaap:NetIncomeLoss", "c1", {"(50)", "20"}),
        c \in CashFacts("c1", "20", "10") }

\* the facts of the later period
P2Rows ==
    { r \o n \o o \o d \o c \o s :
        r \in Optional("us-gaap:Revenues", "c2", {"0", "120"}),
        n \in Optional("us-gaap:NetIncomeLoss", "c2", {"(50)", "0", "30"}),
        o \in Optional("us-gaap:OperatingIncomeLoss", "c2", {"20"}),
        d \in Optional("us-gaap:DepreciationDepletionAndAmortization", "c2", {"5"}),
        c \in CashFacts("c2", "40", "10") \cup CashFacts("c2", "10", "10"),
        s \in Optional("us-gaap:CommonStockSharesOutstanding", "i2", {"4"}) }

\* a share count reported for the later period, for the earlier one, or not
\* at all
ShareFact(name, text) ==
    { <<>>, <<Tag(name, "c2", text, "", "usd")>>, <<Tag(name, "c1", text, "", "usd")>> }

\* the share counts of a document, one value per concept
ShareRows ==
    { c \o d \o t \o b :
        c \in ShareFact("us-gaap:CommonStockSharesOutstanding", "4"),
        d \in ShareFact("us-gaap:WeightedAverageNumberOfDilutedSharesOutstanding", "5"),
        t \in ShareFact("us-gaap:WeightedAverageNumberOfShareOutstandingDiluted", "6"),
        b \in ShareFact("us-gaap:WeightedAverageNumberOfSharesOutstandingBasic", "7") }

\* documents whose share counts vary over the concepts and the periods
ShareDocs ==
    { r \o s :
        r \in { <<Tag("us-gaap:Revenues", "c1", "100", "", "usd")>>,
                <<Tag("us-gaap:Revenues", "c2", "120", "", "usd"),
                  Tag("us-gaap:NetIncomeLoss", "c2", "30", "", "usd")>> },
        s \in ShareRows }

MetricDocs == {r1 \o r2 : r1 \in P1Rows, r2 \in P2Rows} \cup ShareDocs

InitMetrics ==
    /\ doc \in MetricDocs
    /\ file = "utf8"
    /\ ran = <<>>
    /\ html_nodes = <<>>
    /\ section_map = None
    /\ QaIdle
    /\ trading_symbol \in {None, Chars("AAPL")}
    /\ pc = "start"
    /\ raw_values_by_concept = EmptyDict
    /\ parsed_facts = EmptyDict
    /\ revenue_by_period = EmptyDict
    /\ reordered_facts = EmptyDict
    /\ state = [report_path |-> "filing.html"]
    /\ raised = {}
    /\ core_result = EmptyDict

NextMetrics ==
    \/ ExtractionAgentRun
    \/ FinancialAgentRun
    \/ LiveMarketStateAgentRun
    \/ ValuationAgentRun
    \/ CoreMetricsCall

SpecMetrics == InitMetrics /\ [][NextMetrics]_vars

-----------------------------------------------------------------------------
(* tools/adk_text_tools.py *)

\* the characters \s matches and str.strip() drops
Space == {" ", "\n"}

\* soup.get_text("\n", strip=True): the stripped text nodes that are not
\* empty, joined by newlines
RECURSIVE JoinLines(_)
JoinLines(lines) ==
    IF lines = <<>> THEN <<>>
    ELSE IF Len(lines) = 1 THEN lines[1]
    ELSE lines[1] \o <<"\n">> \o JoinLines(Tail(lines))

StrippedNodes(nodes) ==
    SelectSeq([i \in 1..Len(nodes) |-> Strip(nodes[i], Space)], LAMBDA x : x # <<>>)

get_text(nodes) == JoinLines(StrippedNodes(nodes))

\* positions in a text count from 1; start is the first character of a match
\* and end the position after its last one

\* the first position from i on whose character is not in S
SkipWhile(t, i, S) == Min({j \in i..Len(t) : t[j] \notin S} \cup {Len(t) + 1})

\* [^\n]{0,n} from position i
SkipLine(t, i, n) == Min({j \in i..Len(t) : t[j] = "\n"} \cup {Len(t) + 1, i + n})

\* the longest heading tail [^\n]{0,120}
HeadingTail == 120

ItemId(number) == Chars("item_") \o Lower(number)

HeadingMatch(t, start, end, number) ==
    [ start |-> start, end |-> end, section_number |-> number,
      heading |-> Strip(SubSeq(t, start, end - 1), Space),
      section_id |-> ItemId(number) ]

\* \. then \s*[^\n]{0,120}; d is the position after (\d+[a]?)
AfterNumber(t, i, b, d) ==
    IF d <= Len(t) /\ t[d] = "."
    THEN HeadingMatch(t, i, SkipLine(t, SkipWhile(t, d + 1, Space), HeadingTail),
                      SubSeq(t, b, d - 1))
    ELSE None

\* [a]? under re.IGNORECASE; c is the position after \d+
AfterDigits(t, i, b, c) ==
    IF c = b THEN None
    ELSE IF c <= Len(t) /\ LowerChar(t[c]) = "a" /\ AfterNumber(t, i, b, c + 1) # None
    THEN AfterNumber(t, i, b, c + 1)
    ELSE AfterNumber(t, i, b, c)

\* \d+; b is the position after \s+
AfterSpace(t, i, b) ==
    IF b = i + 4 THEN None ELSE AfterDigits(t, i, b, SkipWhile(t, b, Digits))

\* the match of the heading pattern that starts at position i, or None
HeadingAt(t, i) ==
    IF i + 3 <= Len(t) /\ Lower(SubSeq(t, i, i + 3)) = <<"i", "t", "e", "m">>
    THEN AfterSpace(t, i, SkipWhile(t, i + 4, Space))
    ELSE None

\* the positions from i on at which the pattern matches
MatchStarts(t, i) == {j \in i..Len(t) : HeadingAt(t, j) # None}

\* pattern.finditer(full_text) from position i on: the leftmost match, then
\* the matches after its end
RECURSIVE FindFrom(_, _, _)
FindNext(t, matches, m) == FindFrom(t, m.end, Append(matches, m))

FindFrom(t, i, matches) ==
    IF MatchStarts(t, i) = {} THEN matches
    ELSE FindNext(t, matches, HeadingAt(t, Min(MatchStarts(t, i))))

_find_item_headings(full_text) == FindFrom(full_text, 1, <<>>)

\* the chunk of heading i
Chunk(full_text, headings, i) ==
    [ id |-> headings[i].section_id,
      label |-> headings[i].heading,
      section_number |-> headings[i].section_number,
      text |-> Strip(SubSeq(full_text, headings[i].start,
                            IF i + 1 <= Len(headings) THEN headings[i + 1].start - 1
                            ELSE Len(full_text)),
                     Space) ]

Chunks(full_text, headings) ==
    [i \in 1..Len(headings) |-> Chunk(full_text, headings, i)]

\* a dict keeps its keys in insertion order: it is a sequence of values that
\* carry their key in the field id
Keys(d) == {d[i].id : i \in 1..Len(d)}

At(d, key) == d[CHOOSE i \in 1..Len(d) : d[i].id = key]

\* sections_by_id[c["id"]] = c, a new key last and a known key in its place
Store(d, c) ==
    IF c.id \in Keys(d) THEN [i \in 1..Len(d) |-> IF d[i].id = c.id THEN c ELSE d[i]]
    ELSE Append(d, c)

\* a merge that keeps the last chunk of an id
KeepLongest_KeepLast(sections_by_id, c) == Store(sections_by_id, c)

\* if sid not in sections_by_id or len(c["text"]) > len(sections_by_id[sid]["text"])
KeepLongest(sections_by_id, c) ==
    IF c.id \notin Keys(sections_by_id) \/ Len(c.text) > Len(At(sections_by_id, c.id).text)
    THEN Store(sections_by_id, c)
    ELSE sections_by_id

RECURSIVE IndexById(_, _)
IndexById(chunks, sections_by_id) ==
    IF chunks = <<>> THEN sections_by_id
    ELSE IndexById(Tail(chunks), KeepLongest(sections_by_id, Head(chunks)))

static_index ==
    <<
      [id |-> Chars("item_1"), section_type |-> "business", part |-> "PART I", page |-> 3,
       default_label |-> Chars("Item 1. Business")],
      [id |-> Chars("item_1a"), section_type |-> "risks", part |-> "PART I", page |-> 9,
       default_label |-> Chars("Item 1A. Risk Factors")],
      [id |-> Chars("item_1b"), section_type |-> "staff_comments", part |-> "PART I", page |-> 28,
       default_label |-> Chars("Item 1B. Unresolved Staff Comments")],
      [id |-> Chars("item_1c"), section_type |-> "cybersecurity", part |-> "PART I", page |-> 28,
       default_label |-> Chars("Item 1C. Cybersecurity")],
      [id |-> Chars("item_2"), section_type |-> "properties", part |-> "PART I", page |-> 29,
       default_label |-> Chars("Item 2. Properties")],
      [id |-> Chars("item_3"), section_type |-> "legal", part |-> "PART I", page |-> 51,
       default_label |-> Chars("Item 3. Legal Proceedings")],
      [id |-> Chars("item_4"), section_type |-> "safety", part |-> "PART I", page |-> 51,
       default_label |-> Chars("Item 4. Mine Safety Disclosures")],
      [id |-> Chars("item_5"), section_type |-> "equity_market", part |-> "PART II", page |-> 53,
       default_label |-> Chars("Item 5. Market for the Registrant's Common Equity, Related Stockholder Matters and Issuer Purchases of Equity Securities")],
      [id |-> Chars("item_6"), section_type |-> "reserved", part |-> "PART II", page |-> 54,
       default_label |-> Chars("Item 6. [Reserved]")],
      [id |-> Chars("item_7"), section_type |-> "mdna", part |-> "PART II", page |-> 54,
       default_label |-> Chars("Item 7. Management's Discussion and Analysis of Financial Condition and Results of Operations")],
      [id |-> Chars("item_7a"), section_type |-> "market_risk", part |-> "PART II", page |-> 82,
       default_label |-> Chars("Item 7A. Quantitative and Qualitative Disclosures About Market Risk")],
      [id |-> Chars("item_8"), section_type |-> "financials", part |-> "PART II", page |-> 84,
       default_label |-> Chars("Item 8. Financial Statements and Supplementary Data")],
      [id |-> Chars("item_9"), section_type |-> "accounting_changes", part |-> "PART II", page |-> 137,
       default_label |-> Chars("Item 9. Changes in and Disagreements with Accountants on Accounting and Financial Disclosure")],
      [id |-> Chars("item_9a"), section_type |-> "controls", part |-> "PART II", page |-> 137,
       default_label |-> Chars("Item 9A. Controls and Procedures")],
      [id |-> Chars("item_9b"), section_type |-> "other_info", part |-> "PART II", page |-> 137,
       default_label |-> Chars("Item 9B. Other Information")],
      [id |-> Chars("item_9c"), section_type |-> "foreign_disclosure", part |-> "PART II", page |-> 137,
       default_label |-> Chars("Item 9C. Disclosure Regarding Foreign Jurisdictions That Prevent Inspections")],
      [id |-> Chars("item_10"), section_type |-> "directors_governance", part |-> "PART III", page |-> 137,
       default_label |-> Chars("Item 10. Directors, Executive Officers and Corporate Governance")],
      [id |-> Chars("item_11"), section_type |-> "compensation", part |-> "PART III", page |-> 138,
       default_label |-> Chars("Item 11. Executive Compensation")],
      [id |-> Chars("item_12"), section_type |-> "ownership", part |-> "PART III", page |-> 138,
       default_label |-> Chars("Item 12. Security Ownership of Certain Beneficial Owners and Management and Related Stockholder Matters")],
      [id |-> Chars("item_13"), section_type |-> "relationships", part |-> "PART III", page |-> 138,
       default_label |-> Chars("Item 13. Certain Relationships and Related Transactions, and Director Independence")],
      [id |-> Chars("item_14"), section_type |-> "accountant_fees", part |-> "PART III", page |-> 138,
       default_label |-> Chars("Item 14. Principal Accountant Fees and Services")],
      [id |-> Chars("item_15"), section_type |-> "exhibits", part |-> "PART IV", page |-> 138,
       default_label |-> Chars("Item 15. Exhibits and Financial Statement Schedules")],
      [id |-> Chars("item_16"), section_type |-> "summary", part |-> "PART IV", page |-> 144,
       default_label |-> Chars("Item 16. Form 10-K Summary")] >>

\* len(text) if text else None
ApproxCharLen(text) == IF text = <<>> THEN None ELSE <<Len(text)>>

\* _entry of a catalogue id that was detected
DetectedEntry(e, detected) ==
    [ id |-> e.id,
      label |-> IF detected.label # <<>> THEN detected.label ELSE e.default_label,
      section_type |-> e.section_type,
      part |-> e.part,
      page_estimate |-> <<e.page>>,
      approx_char_len |-> ApproxCharLen(detected.text),
      present_in_document |-> TRUE ]

\* _entry of a catalogue id that was not detected
DefaultEntry(e) ==
    [ id |-> e.id,
      label |-> e.default_label,
      section_type |-> e.section_type,
      part |-> e.part,
      page_estimate |-> <<e.page>>,
      approx_char_len |-> None,
      present_in_document |-> FALSE ]

\* an index of the static defaults alone
_entry_Default(sections_by_id, e) == DefaultEntry(e)

_entry(sections_by_id, e) ==
    IF e.id \in Keys(sections_by_id) THEN DetectedEntry(e, At(sections_by_id, e.id))
    ELSE DefaultEntry(e)

\* the entry of a detected section that is not in the static index
ExtraEntry(sec) ==
    [ id |-> sec.id,
      label |-> sec.label,
      section_type |-> "other",
      part |-> "UNKNOWN",
      page_estimate |-> None,
      approx_char_len |-> ApproxCharLen(sec.text),
      present_in_document |-> TRUE ]

_build_sections_index(sections_by_id) ==
    [i \in 1..Len(static_index) |-> _entry(sections_by_id, static_index[i])]
    \o [i \in 1..Len(SelectSeq(sections_by_id, LAMBDA sec : sec.id \notin Keys(static_index))) |->
          ExtraEntry(SelectSeq(sections_by_id,
                               LAMBDA sec : sec.id \notin Keys(static_index))[i])]

SectionMap(full_text, chunks, sections_by_id) ==
    [ full_text |-> full_text,
      sections_by_id |-> sections_by_id,
      chunks |-> chunks,
      sections_index |-> IF chunks = <<>> THEN <<>>
                         ELSE _build_sections_index(sections_by_id) ]

MapOfChunks(full_text, chunks) == SectionMap(full_text, chunks, IndexById(chunks, <<>>))

MapOfText(full_text) ==
    MapOfChunks(full_text, Chunks(full_text, _find_item_headings(full_text)))

build_10k_section_map(nodes) == MapOfText(get_text(nodes))

\* a call of build_10k_section_map on the document
BuildSectionMap ==
    /\ pc = "start"
    /\ section_map' = build_10k_section_map(html_nodes)
    /\ pc' = "mapped"
    /\ UNCHANGED <<doc, file, ran, trading_symbol, raw_values_by_concept, parsed_facts,
                   revenue_by_period, reordered_facts, state, raised, core_result,
                   html_nodes, qaVars>>

-----------------------------------------------------------------------------
(* Documents of the narrative side *)

MaxNodes == 3

\* a line of more characters than a heading tail holds
Filler == [i \in 1..(HeadingTail + 5) |-> "x"]

NodeTexts ==
    { Chars("Item 1A. Risk Factors"),
      Chars("Item 1B. Unresolved Staff Comments"),
      Chars("ITEM 7. MD&A"),
      Chars("item 7."),
      Chars("Item 17. Annex"),
      Chars("risks are many"),
      Chars("see Item 7. and Item 8. below"),
      Chars(" Item 8. Financial Statements "),
      Chars("Item 7. ") \o Filler \o Chars(" Item 8.") }

NodeDocs == SeqsUpTo(NodeTexts, MaxNodes)

InitSections ==
    /\ html_nodes \in NodeDocs
    /\ section_map = None
    /\ QaIdle
    /\ doc = <<>>
    /\ file = "utf8"
    /\ ran = <<>>
    /\ trading_symbol = None
    /\ pc = "start"
    /\ raw_values_by_concept = EmptyDict
    /\ parsed_facts = EmptyDict
    /\ revenue_by_period = EmptyDict
    /\ reordered_facts = EmptyDict
    /\ state = [report_path |-> "filing.html"]
    /\ raised = {}
    /\ core_result = EmptyDict

NextSections == BuildSectionMap

SpecSections == InitSections /\ [][NextSections]_vars

-----------------------------------------------------------------------------
(* agents/qa_agent_adk.py and tools/adk_qa_tools.py: the section index of *)
(* a question.  state['sections_index'] holds a dict or a list: the value *)
(* is a record of its form and of its items, in order.                    *)

DictOf(items) == [form |-> "dict", items |-> items]

ListOf(items) == [form |-> "list", items |-> items]

RECURSIVE NormalizeList(_, _)
NormalizeList(entries, out) ==
    IF entries = <<>> THEN out
    ELSE IF Get(Head(entries), "id") = <<>> THEN NormalizeList(Tail(entries), out)
    ELSE NormalizeList(Tail(entries), Store(out, Head(entries)))

\* the normalized index, a dict keyed by section id
_normalize_sections_index(sections_index_raw) ==
    IF sections_index_raw.items = <<>> THEN <<>>
    ELSE IF sections_index_raw.form = "dict" THEN sections_index_raw.items
    ELSE NormalizeList(sections_index_raw.items, <<>>)

core_intents == {"risks", "mdna", "financials"}

HasType(meta, types) == "section_type" \in DOMAIN meta /\ meta.section_type \in types

OfTypes(index, types) == SelectSeq(index, LAMBDA meta : HasType(meta, types))

WantedOf(index, wanted_types) ==
    IF wanted_types = {} THEN index ELSE OfTypes(index, wanted_types)

_filter_sections_index_by_intents(sections_index_raw, intent_set) ==
    WantedOf(_normalize_sections_index(sections_index_raw), intent_set \cap core_intents)

intent_to_types ==
    [ financials |-> {"financials", "market_risk", "equity_market"},
      risks |-> {"risks", "cybersecurity", "market_risk", "safety"},
      mdna |-> {"mdna", "market_risk", "financials"} ]

AllowedTypes(intent_set) ==
    UNION {intent_to_types[i] : i \in intent_set \cap DOMAIN intent_to_types}

\* sections_index.items() of a list raises AttributeError
FilterRaises(intent_set, raw) ==
    raw.items # <<>> /\ AllowedTypes(intent_set) # {} /\ raw.form = "list"

_filter_sections_index_for_intents(intent_set, raw) ==
    IF raw.items = <<>> \/ AllowedTypes(intent_set) = {} THEN <<>>
    ELSE OfTypes(raw.items, AllowedTypes(intent_set))

\* re.sub(r"[^a-z0-9\s]+", " ", text.lower()): split() makes one separator
\* of a run of spaces, so each replaced character becomes a space
CleanChar(c) == IF c \in Letters \cup Digits \cup Space THEN c ELSE " "

Cleaned(text) == SubSeq([i \in 1..Len(text) |-> CleanChar(LowerChar(text[i]))], 1, Len(text))

TokenStarts(t) == {i \in 1..Len(t) : t[i] \notin Space /\ (i = 1 \/ t[i - 1] \in Space)}

\* the first position from i on whose character is in S
SkipTo(t, i, S) == Min({j \in i..Len(t) : t[j] \in S} \cup {Len(t) + 1})

TokenAt(t, i) == SubSeq(t, i, SkipTo(t, i, Space) - 1)

TokensOf(t, starts) == [k \in 1..Len(starts) |-> TokenAt(t, starts[k])]

Split(t) == TokensOf(t, Sorted(TokenStarts(t)))

_normalize_text(text) == Split(Cleaned(text))

SnippetLen == 2000

Title(section) ==
    IF Get(section, "label") # <<>> THEN Get(section, "label") ELSE Get(section, "title")

\* text[:2000]
Snippet(section) ==
    SubSeq(Get(section, "text"), 1, Min({Len(Get(section, "text")), SnippetLen}))

SectionTokens(section) ==
    Range(_normalize_text(Title(section) \o <<" ">> \o Snippet(section)))

Overlap(q_tokens, s_tokens) ==
    IF s_tokens = {} THEN Zero
    ELSE Rat(Cardinality(q_tokens \cap s_tokens), Max({Cardinality(q_tokens), 1}))

_score_section_for_question(q, section) ==
    Overlap(Range(_normalize_text(q)), SectionTokens(section))

ScoreOf(q, meta) == [score |-> _score_section_for_question(q, meta), sid |-> meta.id]

Scored(q, index) ==
    SelectSeq([i \in 1..Len(index) |-> ScoreOf(q, index[i])],
              LAMBDA x : RLt(Zero, x.score))

\* the place of scored[i] after scored.sort(key=score, reverse=True), a
\* stable sort
PlaceOf(scored, i) ==
    1 + Cardinality({j \in 1..Len(scored) :
                        \/ RLt(scored[i].score, scored[j].score)
                        \/ scored[j].score = scored[i].score /\ j < i})

\* the order of the index
SortByScore_Unsorted(scored) == scored

SortByScore(scored) ==
    [r \in 1..Len(scored) |-> scored[CHOOSE i \in 1..Len(scored) : PlaceOf(scored, i) = r]]

\* every scored section, whatever min_score and top_k are
RECURSIVE TakeSections_All(_, _, _, _, _)
TakeSections_All(scored, index, k, m, results) ==
    IF scored = <<>> THEN results
    ELSE TakeSections_All(Tail(scored), index, k, m,
                          Store(results, At(index, Head(scored).sid)))

\* the loop over the sorted scores
RECURSIVE TakeSections(_, _, _, _, _)
TakeSections(scored, index, k, m, results) ==
    IF scored = <<>> THEN results
    ELSE IF RLt(Head(scored).score, m) THEN results
    ELSE IF Len(Store(results, At(index, Head(scored).sid))) >= k
    THEN Store(results, At(index, Head(scored).sid))
    ELSE TakeSections(Tail(scored), index, k, m,
                      Store(results, At(index, Head(scored).sid)))

_fallback_sections_for_question(q, sections_index_norm, k, m) ==
    TakeSections(SortByScore(Scored(q, sections_index_norm)), sections_index_norm, k, m, <<>>)

-----------------------------------------------------------------------------
(* Retrieval calls *)

MaxEntries == 3

MaxTopK == 2

Questions ==
    { Chars(""), Chars("Item 7 risk"), Chars("risk factors?"), Chars("any downside?") }

IntentSets == SUBSET {"financials", "risks", "mdna", "memo"}

TopKs == 1..MaxTopK

MinScores == {Rat(1, 10), Rat(15, 100), Rat(1, 2)}

\* entries of a Section Index: catalogue entries and a detected extra
IndexMetas ==
    { DefaultEntry(static_index[2]), DefaultEntry(static_index[4]),
      DefaultEntry(static_index[10]), DefaultEntry(static_index[11]),
      DefaultEntry(static_index[12]),
      ExtraEntry([id |-> Chars("item_17"), label |-> Chars("Item 17. Annex"),
                  section_number |-> Chars("17"), text |-> Chars("Item 17. Annex")]) }

\* chunks of a section map
ChunkMetas ==
    { [id |-> Chars("item_1a"), label |-> Chars("Item 1A. Risk Factors"),
       section_number |-> Chars("1A"), text |-> Chars("Item 1A. Risk Factors")],
      [id |-> Chars("item_7"), label |-> Chars("item 7."),
       section_number |-> Chars("7"), text |-> Chars("item 7.")],
      [id |-> Chars("item_7"), label |-> Chars("ITEM 7. MD&A"),
       section_number |-> Chars("7"), text |-> Chars("ITEM 7. MD&A")] }

DistinctIds(items) ==
    \A i, j \in 1..Len(items) : items[i].id = items[j].id => i = j

DictIndexes ==
    {DictOf(items) : items \in {x \in SeqsUpTo(IndexMetas, MaxEntries) : DistinctIds(x)}}

ListIndexes == {ListOf(items) : items \in SeqsUpTo(ChunkMetas, MaxEntries)}

InitQa ==
    /\ sections_index \in DictIndexes \cup ListIndexes
    /\ question = None
    /\ intents = {}
    /\ top_k = None
    /\ min_score = None
    /\ sections_index_filtered = None
    /\ html_nodes = <<>>
    /\ section_map = None
    /\ doc = <<>>
    /\ file = "utf8"
    /\ ran = <<>>
    /\ trading_symbol = None
    /\ pc = "start"
    /\ raw_values_by_concept = EmptyDict
    /\ parsed_facts = EmptyDict
    /\ revenue_by_period = EmptyDict
    /\ reordered_facts = EmptyDict
    /\ state = EmptyDict
    /\ raised = {}
    /\ core_result = EmptyDict

qaUnchanged ==
    UNCHANGED <<doc, file, ran, trading_symbol, raw_values_by_concept, parsed_facts, revenue_by_period,
                reordered_facts, state, core_result, html_nodes, section_map,
                sections_index>>

\* a call of _filter_sections_index_by_intents
FilterByIntentsCall ==
    /\ pc = "start"
    /\ \E i \in IntentSets :
          /\ intents' = i
          /\ sections_index_filtered' = _filter_sections_index_by_intents(sections_index, i)
    /\ pc' = "filtered_by"
    /\ UNCHANGED <<question, top_k, min_score, raised>>
    /\ qaUnchanged

\* a call of _filter_sections_index_for_intents
FilterForIntentsCall ==
    /\ pc = "start"
    /\ \E i \in IntentSets :
          /\ intents' = i
          /\ IF FilterRaises(i, sections_index)
             THEN /\ raised' = raised \cup {"_filter_sections_index_for_intents"}
                  /\ UNCHANGED sections_index_filtered
             ELSE /\ sections_index_filtered' =
                        _filter_sections_index_for_intents(i, sections_index)
                  /\ UNCHANGED raised
    /\ pc' = "filtered_for"
    /\ UNCHANGED <<question, top_k, min_score>>
    /\ qaUnchanged

\* a call of _fallback_sections_for_question on the normalized index
FallbackCall ==
    /\ pc = "start"
    /\ \E q \in Questions, k \in TopKs, m \in MinScores :
          /\ question' = q
          /\ top_k' = k
          /\ min_score' = m
          /\ sections_index_filtered' =
                _fallback_sections_for_question(
                    q, _normalize_sections_index(sections_index), k, m)
    /\ pc' = "fallback"
    /\ UNCHANGED <<intents, raised>>
    /\ qaUnchanged

NextQa == FilterByIntentsCall \/ FilterForIntentsCall \/ FallbackCall

SpecQa == InitQa /\ [][NextQa]_vars

-----------------------------------------------------------------------------
(* agents/risk_mdna_agent_adk.py *)

\* state with the keys of a state_delta written over it
StateWith(delta) ==
    [k \in (DOMAIN state) \cup (DOMAIN delta) |->
        IF k \in DOMAIN delta THEN delta[k] ELSE state[k]]

SectionText(sections_by_id, id) ==
    IF id \in Keys(sections_by_id) THEN At(sections_by_id, id).text ELSE <<>>

extract_10k_text_sections(map) ==
    [ item_1a_raw |-> SectionText(map.sections_by_id, Chars("item_1a")),
      item_7_raw |-> SectionText(map.sections_by_id, Chars("item_7")),
      sections_index |-> map.sections_index ]

\* what a call of the language model can return for a text: no finding or
\* some findings
LlmLists == {<<>>, <<"finding">>}

LlmFor(text) == IF Strip(text, Space) # <<>> THEN LlmLists ELSE {<<>>}

RiskSummary(sections, top_risks, winds) ==
    [ has_item_1a |-> Strip(sections.item_1a_raw, Space) # <<>>,
      has_mdna |-> Strip(sections.item_7_raw, Space) # <<>>,
      top_risks |-> top_risks,
      headwinds |-> winds,
      tailwinds |-> winds ]

RiskMdnaDelta(map, sections, top_risks, winds) ==
    [ item_1a_text |-> sections.item_1a_raw,
      mdna_text |-> sections.item_7_raw,
      risk_mdna_summary |-> RiskSummary(sections, top_risks, winds),
      sections_index |-> ListOf(map.chunks) ]

RiskMdnaOf(map) ==
    \E top_risks \in LlmFor(extract_10k_text_sections(map).item_1a_raw),
       winds \in LlmFor(extract_10k_text_sections(map).item_7_raw) :
        state' = StateWith(RiskMdnaDelta(map, extract_10k_text_sections(map),
                                         top_risks, winds))

\* RiskMdnaAgent._run_async_impl
RiskMdnaAgentAt(at, to) ==
    /\ pc = at
    /\ IF HasDocPath(state)
       THEN /\ section_map' = build_10k_section_map(html_nodes)
            /\ RiskMdnaOf(build_10k_section_map(html_nodes))
            /\ pc' = to
            /\ UNCHANGED raised
       ELSE /\ raised' = raised \cup {"RiskMdnaAgent"}
            /\ pc' = "failed"
            /\ UNCHANGED <<state, section_map>>
    /\ UNCHANGED <<doc, file, trading_symbol, raw_values_by_concept, parsed_facts,
                   revenue_by_period, reordered_facts, core_result, html_nodes, qaVars>>

RiskMdnaAgentRun == RiskMdnaAgentAt("start", "risk_mdna") /\ UNCHANGED ran

-----------------------------------------------------------------------------
(* agents/qa_agent_adk.py: QaAgent.  The keyword spelled with a            *)
(* typographic apostrophe is left out of each list.                        *)

live_keywords ==
    { Chars("stock price"),
      Chars("share price"),
      Chars("market price"),
      Chars("today's price"),
      Chars("todays price"),
      Chars("live price"),
      Chars("live market"),
      Chars("market cap"),
      Chars("market capitalization"),
      Chars("valuation today"),
      Chars("current price"),
      Chars("trading at"),
      Chars("stock is trading"),
      Chars("share is trading"),
      Chars("current market cap") }

financial_words ==
    { Chars("financial highlight"),
      Chars("financial highlights"),
      Chars("financials"),
      Chars("results"),
      Chars("performance"),
      Chars("earnings"),
      Chars("revenue"),
      Chars("sales"),
      Chars("net income"),
      Chars("profit"),
      Chars("margin"),
      Chars("cash flow"),
      Chars("operating cash"),
      Chars("free cash flow"),
      Chars("fcf") }

risk_words ==
    { Chars("risk"),
      Chars("risks"),
      Chars("risk factor"),
      Chars("risk factors"),
      Chars("headwind"),
      Chars("headwinds"),
      Chars("tailwind"),
      Chars("tailwinds"),
      Chars("downside"),
      Chars("threat"),
      Chars("threats"),
      Chars("uncertainty"),
      Chars("volatility") }

mdna_words ==
    { Chars("md&a"),
      Chars("mdna"),
      Chars("management's discussion"),
      Chars("management discussion"),
      Chars("item 7"),
      Chars("item seven") }

memo_words ==
    { Chars("investment memo"),
      Chars("investment thesis"),
      Chars("overall view"),
      Chars("overall assessment"),
      Chars("due diligence summary"),
      Chars("high level"),
      Chars("summary view") }

AnyIn(q, words) == \E w \in words : Contains(q, w)

_wants_live_quote(q) == AnyIn(Lower(q), live_keywords)

RuleIntents(q) ==
    (IF AnyIn(q, financial_words) THEN {"financials"} ELSE {})
    \cup (IF AnyIn(q, risk_words) THEN {"risks"} ELSE {})
    \cup (IF AnyIn(q, mdna_words) THEN {"mdna"} ELSE {})
    \cup (IF AnyIn(q, memo_words) THEN {"memo"} ELSE {})

_detect_intents_rule_based(q) ==
    IF RuleIntents(Lower(q)) = {} THEN {"memo"} ELSE RuleIntents(Lower(q))

\* the labels the language model can add to the rule-based intents
LlmIntentSets == {{}, {"financials"}, {"risks"}, {"mdna", "memo"}}

RECURSIVE JoinWords(_)
JoinWords(words) ==
    IF words = <<>> THEN <<>>
    ELSE IF Len(words) = 1 THEN words[1]
    ELSE words[1] \o <<" ">> \o JoinWords(Tail(words))

\* " ".join(question_str.split())
QuestionStr(new_message) == JoinWords(Split(new_message))

AllIntents(rule_intents, llm_intents, wants_live) ==
    rule_intents \cup llm_intents \cup (IF wants_live THEN {"stock"} ELSE {})

StateOr(st, k, default) == IF k \in DOMAIN st THEN st[k] ELSE default

LastTwo_All(history) == history

\* qa_history_for_summary[-2:]
LastTwo(history) == SubSeq(history, Max({1, Len(history) - 1}), Len(history))

TruncateLen == 6000

_truncate(text) ==
    IF Len(text) <= TruncateLen THEN text
    ELSE SubSeq(text, 1, TruncateLen) \o <<"\n", "\n">> \o Chars("[TRUNCATED]") \o <<"\n">>

\* the filtered index of the question: the fallback is used when the filter
\* keeps nothing, financials is no intent and the index is not empty
SectionsFor(q, intent_set, raw, filtered) ==
    IF filtered = <<>> /\ "financials" \notin intent_set
       /\ _normalize_sections_index(raw) # <<>>
    THEN _fallback_sections_for_question(q, _normalize_sections_index(raw), 5, Rat(15, 100))
    ELSE filtered

QaSections(st, q, intent_set) ==
    SectionsFor(q, intent_set, StateOr(st, "sections_index", DictOf(<<>>)),
                _filter_sections_index_by_intents(
                    StateOr(st, "sections_index", DictOf(<<>>)), intent_set))

DigitChars == <<"0", "1", "2", "3", "4", "5", "6", "7", "8", "9">>

\* the digit of p at the place of 10^k
DigitAt(p, k) == DigitChars[((p \div Pow10(k)) % 10) + 1]

\* the text 'YYYY-MM-DD' of a period, which is the key FinancialAgent uses
PeriodStr(p) ==
    << DigitAt(p, 7), DigitAt(p, 6), DigitAt(p, 5), DigitAt(p, 4), "-",
       DigitAt(p, 3), DigitAt(p, 2), "-", DigitAt(p, 1), DigitAt(p, 0) >>

\* the keys of a dict keyed by period that are the text name
KeysNamed(by_period, name) == {k \in DOMAIN by_period : PeriodStr(k) = name}

\* financial_metrics.get("per_period") or {}
PerPeriod(financial_metrics) ==
    IF KeysNamed(financial_metrics, Chars("per_period")) = {} THEN EmptyDict
    ELSE financial_metrics[CHOOSE k \in KeysNamed(financial_metrics, Chars("per_period")) : TRUE]

\* per_period.get(state.get("key_period"), {})
MetricsIn(per_period, st) ==
    IF per_period # EmptyDict /\ "key_period" \in DOMAIN st
       /\ st["key_period"] \in DOMAIN per_period
    THEN per_period[st["key_period"]]
    ELSE EmptyDict

MetricsForPeriod(st) ==
    MetricsIn(PerPeriod(StateOr(st, "financial_metrics", EmptyDict)), st)

RecentQa(history) == [i \in 1..Len(LastTwo(history)) |->
                         [q |-> LastTwo(history)[i].q, a |-> LastTwo(history)[i].a]]

Evidence(st, q, intent_set, wants_live) ==
    [ company |-> StateOr(st, "company", Chars("Unknown company")),
      key_period |-> StateOr(st, "key_period", Chars("latest year")),
      intents |-> intent_set,
      sections_index_filtered |-> QaSections(st, q, intent_set),
      sections_index_size |->
          Len(_normalize_sections_index(StateOr(st, "sections_index", DictOf(<<>>)))),
      financial_metrics_latest |-> MetricsForPeriod(st),
      financial_metrics_all |-> StateOr(st, "financial_metrics", EmptyDict),
      risk_mdna_summary |-> StateOr(st, "risk_mdna_summary", EmptyDict),
      item_1a_text_snippet |-> _truncate(StateOr(st, "item_1a_text", <<>>)),
      mdna_text_snippet |-> _truncate(StateOr(st, "mdna_text", <<>>)),
      investment_memo_snippet |-> _truncate(StateOr(st, "investment_memo_markdown", <<>>)),
      recent_qa |-> RecentQa(StateOr(st, "qa_history", <<>>)),
      conversation_summary |-> StateOr(st, "conversation_summary", <<>>),
      live_market_data |-> StateOr(st, "live_quote", EmptyDict),
      wants_live_quote |-> wants_live ]

LiveEvidence(st, wants_live) ==
    [ live_market_data |-> StateOr(st, "live_quote", EmptyDict),
      wants_live_quote |-> wants_live ]

\* the state_delta of a turn; the answer and the summary are texts of the
\* language model
QaDelta(st, q, route, evidence) ==
    [ qa_last_question |-> q,
      qa_last_route |-> route,
      qa_last_evidence |-> evidence,
      qa_last_answer |-> "answer",
      qa_last_sources_text |-> "sources",
      qa_history |-> LastTwo(Append(StateOr(st, "qa_history", <<>>),
                                    [q |-> q, a |-> "answer", route |-> route])),
      conversation_summary |-> "summary" ]

\* "live_quote", or "auto_multi:" and the sorted intents
Route(label, intent_set) == [label |-> label, intents |-> intent_set]

HasLiveQuote(st) == "live_quote" \in DOMAIN st /\ st["live_quote"] # EmptyDict

QaTurn(st, q, intent_set, wants_live) ==
    IF wants_live /\ intent_set \cap core_intents = {} /\ HasLiveQuote(st)
    THEN QaDelta(st, q, Route("live_quote", {}), LiveEvidence(st, wants_live))
    ELSE QaDelta(st, q, Route("auto_multi", intent_set),
                 Evidence(st, q, intent_set, wants_live))

\* the questions of a turn
NewMessages ==
    { Chars(""), Chars("risk factors?"), Chars("any  downside?"), Chars("stock price?") }

\* QaAgent._run_async_impl on a new message
\* getattr(ctx, "new_message", None) or state.get("qa_last_question") or ""
QuestionOf(st, new_message) ==
    IF new_message # <<>> THEN new_message ELSE StateOr(st, "qa_last_question", <<>>)

\* the state_delta of a turn on the question question_str
QaAnswer(st, question_str, llm_intents) ==
    QaTurn(st, question_str,
           AllIntents(_detect_intents_rule_based(question_str), llm_intents,
                      _wants_live_quote(question_str)),
           _wants_live_quote(question_str))

\* a turn whose new message is one of messages
QaAgentOn(at, to, messages) ==
    /\ pc = at
    /\ \E new_message \in messages, llm_intents \in LlmIntentSets :
          IF QuestionStr(QuestionOf(state, new_message)) = <<>>
          THEN UNCHANGED state
          ELSE state' = StateWith(QaAnswer(state, QuestionStr(QuestionOf(state, new_message)),
                                           llm_intents))
    /\ pc' = to
    /\ UNCHANGED <<doc, file, trading_symbol, raw_values_by_concept, parsed_facts,
                   revenue_by_period, reordered_facts, raised, core_result, html_nodes,
                   section_map, qaVars>>

QaAgentAt(at, to) == QaAgentOn(at, to, NewMessages)

QaAgentRun == QaAgentAt("risk_mdna", "answered") /\ UNCHANGED ran

NextNarrative == RiskMdnaAgentRun \/ QaAgentRun

SpecNarrative == InitSections /\ [][NextNarrative]_vars

-----------------------------------------------------------------------------
(* The pipeline of build_mas and the chat loop that follows it *)

\* the turns of the chat loop a run is followed for
MaxTurns == 3

sub_agents_ValuationFirst ==
    << "ExtractionAgent", "ValuationAgent", "FinancialAgent", "RiskMdnaAgent",
       "CompanyAgent", "MarketAnalysisAgent", "LiveMarketStateAgent", "MemoAgent" >>

\* build_mas: the sub_agents of the SequentialAgent, in the order they run
sub_agents ==
    << "ExtractionAgent", "FinancialAgent", "RiskMdnaAgent", "CompanyAgent",
       "MarketAnalysisAgent", "LiveMarketStateAgent", "ValuationAgent", "MemoAgent" >>

StepOf(name) == CHOOSE i \in 1..Len(sub_agents) : sub_agents[i] = name

\* where the run is when the agent name is the next to run
Before(name) == IF StepOf(name) = 1 THEN "start" ELSE sub_agents[StepOf(name) - 1]

\* the company_overview of CompanyAgent: a fallback text without Item 1 and
\* MD&A text, else the text of the language model or the fallback for an
\* empty one
CompanyOverviews(st) ==
    IF StateOr(st, "item_1_text", <<>>) = <<>> /\ StateOr(st, "mdna_text", <<>>) = <<>>
    THEN {"no context overview"}
    ELSE {"overview", "empty response overview"}

\* CompanyAgent._run_async_impl
CompanyAgentAt(at, to) ==
    /\ pc = at
    /\ \E overview_text \in CompanyOverviews(state) :
          state' = Put(state, "company_overview", overview_text)
    /\ pc' = to
    /\ UNCHANGED <<doc, file, trading_symbol, raw_values_by_concept, parsed_facts,
                   revenue_by_period, reordered_facts, raised, core_result>>
    /\ UNCHANGED textVars

\* the state keys the instruction of MarketAnalysisAgent names
InstructionKeys == {"company", "ticker"}

\* MarketAnalysisAgent, an LlmAgent: its answer is stored under its
\* output_key; the framework fills the instruction from the state and may
\* raise for a key the state does not hold
MarketAnalysisAgentAt(at, to) ==
    /\ pc = at
    /\ \/ /\ state' = Put(state, "market_analysis", "market analysis")
          /\ pc' = to
          /\ UNCHANGED raised
       \/ /\ InstructionKeys \ DOMAIN state # {}
          /\ raised' = raised \cup {"MarketAnalysisAgent"}
          /\ pc' = "failed"
          /\ UNCHANGED state
    /\ UNCHANGED <<doc, file, trading_symbol, raw_values_by_concept, parsed_facts,
                   revenue_by_period, reordered_facts, core_result>>
    /\ UNCHANGED textVars

MemoDelta == [investment_memo |-> "memo", investment_thesis |-> "thesis"]

\* MemoAgent._run_async_impl: a no-op without memo_financials, else the
\* memo and the thesis of the language model
MemoAgentAt(at, to) ==
    /\ pc = at
    /\ IF StateOr(state, "memo_financials", EmptyDict) = EmptyDict
       THEN UNCHANGED state
       ELSE state' = StateWith(MemoDelta)
    /\ pc' = to
    /\ UNCHANGED <<doc, file, trading_symbol, raw_values_by_concept, parsed_facts,
                   revenue_by_period, reordered_facts, raised, core_result>>
    /\ UNCHANGED textVars

\* the keys of the session state an agent of the pipeline reads: the
\* state.get calls of extraction_agent_adk.py:270-272,
\* financial_agent_adk.py:35-36 and 177-179, risk_mdna_agent_adk.py:193-195,
\* company_agent_adk.py:41-46, market_analysis_agent_adk.py:33-34,
\* live_market_agent_adk.py:58-60, valuation_agent_adk.py:25-87 and
\* memo_agent_adk.py:111-184
Reads(name) ==
    CASE name = "ExtractionAgent" -> {"report_path", "html_path", "pdf_path"}
      [] name = "FinancialAgent" ->
            {"financials_raw", "available_periods", "company", "ticker", "symbol"}
      [] name = "RiskMdnaAgent" -> {"report_path", "html_path", "pdf_path"}
      [] name = "CompanyAgent" ->
            {"company", "company_name", "ticker", "symbol", "item_1_text", "mdna_text"}
      [] name = "MarketAnalysisAgent" -> InstructionKeys
      [] name = "LiveMarketStateAgent" -> {"ticker", "symbol", "company_ticker"}
      [] name = "ValuationAgent" ->
            {"available_periods", "key_period", "financial_metrics", "memo_financials",
             "live_quote", "live_stock", "financials_raw"}
      [] name = "MemoAgent" ->
            {"memo_financials", "financial_metrics", "key_period", "risk_mdna_summary",
             "item_1a_text", "mdna_text", "company_overview", "live_stock", "live_quote",
             "valuation_metrics", "market_analysis"}

\* the keys of the state_delta an agent of the pipeline emits:
\* extraction_agent_adk.py:308-325, financial_agent_adk.py:182-188,
\* risk_mdna_agent_adk.py:251-256, company_agent_adk.py:143,
\* output_key of market_analysis_agent_adk.py:128,
\* live_market_agent_adk.py:126-129, valuation_agent_adk.py:154 and
\* memo_agent_adk.py:317-320
Writes(name) ==
    CASE name = "ExtractionAgent" ->
            {"extraction", "financials_raw", "company", "ticker", "symbol", "cik",
             "available_periods"}
      [] name = "FinancialAgent" -> {"financial_metrics", "memo_financials", "key_period"}
      [] name = "RiskMdnaAgent" ->
            {"item_1a_text", "mdna_text", "risk_mdna_summary", "sections_index"}
      [] name = "CompanyAgent" -> {"company_overview"}
      [] name = "MarketAnalysisAgent" -> {"market_analysis"}
      [] name = "LiveMarketStateAgent" -> {"live_stock", "live_quote"}
      [] name = "ValuationAgent" -> {"valuation_metrics"}
      [] name = "MemoAgent" -> {"investment_memo", "investment_thesis"}

PipelineExtraction ==
    /\ ExtractionAgentAt(Before("ExtractionAgent"), "ExtractionAgent")
    /\ ran' = Append(ran, "ExtractionAgent")

PipelineFinancial ==
    /\ FinancialAgentAt(Before("FinancialAgent"), "FinancialAgent")
    /\ ran' = Append(ran, "FinancialAgent")

PipelineRiskMdna ==
    /\ RiskMdnaAgentAt(Before("RiskMdnaAgent"), "RiskMdnaAgent")
    /\ ran' = Append(ran, "RiskMdnaAgent")

PipelineCompany ==
    /\ CompanyAgentAt(Before("CompanyAgent"), "CompanyAgent")
    /\ ran' = Append(ran, "CompanyAgent")

PipelineMarketAnalysis ==
    /\ MarketAnalysisAgentAt(Before("MarketAnalysisAgent"), "MarketAnalysisAgent")
    /\ ran' = Append(ran, "MarketAnalysisAgent")

PipelineLiveMarketState ==
    /\ LiveMarketStateAgentAt(Before("LiveMarketStateAgent"), "LiveMarketStateAgent")
    /\ ran' = Append(ran, "LiveMarketStateAgent")

PipelineValuation ==
    /\ ValuationAgentAt(Before("ValuationAgent"), "ValuationAgent")
    /\ ran' = Append(ran, "ValuationAgent")

PipelineMemo ==
    /\ MemoAgentAt(Before("MemoAgent"), "MemoAgent")
    /\ ran' = Append(ran, "MemoAgent")

\* what the user types in the chat loop, stripped
UserQuestions == { Chars(""), Chars("risk factors?"), Chars("stock price?") }

\* the chat loop stores the question of the user before it runs QaAgent
UserAsks ==
    /\ pc \in {sub_agents[Len(sub_agents)], "QaAgent"}
    /\ Len(ran) < Len(sub_agents) + MaxTurns
    /\ \E user_q \in UserQuestions : state' = Put(state, "qa_last_question", user_q)
    /\ pc' = "asked"
    /\ UNCHANGED <<doc, file, ran, trading_symbol, raw_values_by_concept, parsed_facts,
                   revenue_by_period, reordered_facts, raised, core_result>>
    /\ UNCHANGED textVars

\* the turn of QaAgent on the question the chat loop stored
ChatTurn ==
    /\ QaAgentOn("asked", "QaAgent", {StateOr(state, "qa_last_question", <<>>)})
    /\ ran' = Append(ran, "QaAgent")

\* a filing without facts and one with facts of two periods
PipelineDocs ==
    { <<>>,
      << Tag("us-gaap:Revenues", "c1", "100", "", "usd"),
         Tag("us-gaap:Revenues", "c2", "120", "", "usd"),
         Tag("us-gaap:NetIncomeLoss", "c2", "30", "", "usd"),
         Tag("us-gaap:CommonStockSharesOutstanding", "i2", "4", "", "usd") >> }

\* the narrative of the filing
PipelineNodes ==
    { << Chars("Item 1A. Risk Factors"), Chars("risks are many"), Chars("ITEM 7. MD&A") >> }

InitPipeline ==
    /\ doc \in PipelineDocs
    /\ file = "utf8"
    /\ ran = <<>>
    /\ html_nodes \in PipelineNodes
    /\ section_map = None
    /\ QaIdle
    /\ trading_symbol \in {None, Chars("AAPL")}
    /\ pc = "start"
    /\ raw_values_by_concept = EmptyDict
    /\ parsed_facts = EmptyDict
    /\ revenue_by_period = EmptyDict
    /\ reordered_facts = EmptyDict
    /\ state = [report_path |-> "filing.html"]
    /\ raised = {}
    /\ core_result = EmptyDict

NextPipeline ==
    \/ PipelineExtraction
    \/ PipelineFinancial
    \/ PipelineRiskMdna
    \/ PipelineCompany
    \/ PipelineMarketAnalysis
    \/ PipelineLiveMarketState
    \/ PipelineValuation
    \/ PipelineMemo
    \/ UserAsks
    \/ ChatTurn

SpecPipeline == InitPipeline /\ [][NextPipeline]_vars

-----------------------------------------------------------------------------
(* Properties of the extraction *)

RMaxOf(S) == CHOOSE x \in S : \A y \in S : ~RLt(x, y)

GenericContexts == _build_context_period_map(DocContexts)

DirectContexts == context_end_by_id(DocContexts)

\* the positions of doc whose fact the generic scan stores under concept and period
ScannedAt(concept, period) ==
    {i \in 1..Len(doc) :
        /\ Scannable(doc[i], GenericContexts)
        /\ doc[i].name = concept
        /\ GenericContexts[doc[i].contextref] = period}

\* the positions of doc whose fact the reconciler keeps for period
TrackedAt(period) ==
    {i \in 1..Len(doc) :
        /\ OpensAsUtf8(file)
        /\ Tracked(doc[i], DirectContexts)
        /\ DirectContexts[doc[i].contextref] = period}

Concepts == UNION {{concept_map[k][i] : i \in 1..Len(concept_map[k])} : k \in DOMAIN concept_map}

\* the positions in concept_list of the concepts that report period p
Reporting(concept_list, p) ==
    {i \in 1..Len(concept_list) : ScannedAt(concept_list[i], p) # {}}

\* facts[k][p] is the value of the first concept of k's list among reporting
HoldsFirst(facts, k, p, reporting) ==
    reporting # {} =>
        /\ k \in DOMAIN facts
        /\ p \in DOMAIN facts[k]
        /\ facts[k][p] = raw_values_by_concept[concept_map[k][Min(reporting)]][p]

\* C1: in the merged Fact Table every canonical metric holds, for every period
\* that one of its source concepts reports, the value of the first concept in
\* preference order that reports the period (B's value where only B reports,
\* A's value where A and B both report)
C1_PreferenceMerge ==
    pc = "extracted" =>
        \A k \in DOMAIN concept_map : \A p \in Periods :
            HoldsFirst(parsed_facts, k, p, Reporting(concept_map[k], p))

\* C2: after the scan the value kept for a (concept, period) is the maximum of
\* the scaled values of the document's facts for that concept and period
C2_DuplicateMaximum ==
    pc = "extracted" =>
        \A c \in Concepts : \A p \in Periods :
            ScannedAt(c, p) # {} =>
                raw_values_by_concept[c][p] =
                    RMaxOf({ScaledValue(doc[i], _build_unit_map(DocUnits)) :
                              i \in ScannedAt(c, p)})

\* C3: a document holding the same facts in another order parses to the same
\* Fact Table
C3_ScanOrderIndependent ==
    pc = "reparsed" => reordered_facts = parsed_facts

\* number * 10^(-d)
TimesPow10(number, d) ==
    IF d < 0 THEN RMul(number, <<Pow10(0 - d), 1>>) ELSE RDiv(number, <<Pow10(d), 1>>)

\* raw_number * 10^(-d) for an integer decimals value d, raw_number for none
DecimalsScaled(number, decimals_attr) ==
    TimesPow10(number, IF decimals_attr = None THEN 0 ELSE PyInt(decimals_attr)[1])

\* the document is one fact with an integer or absent decimals attribute and
\* a unit without scale hint
OneUnhintedFact ==
    /\ Len(doc) = 1
    /\ doc[1].decimals = None \/ PyInt(doc[1].decimals) # None
    /\ ScaleUnit(doc[1].unitref, _build_unit_map(DocUnits)) = FromInt(1)

\* C4: a fact with integer decimals d and no unit scale hint is scaled to
\* raw_number * 10^(-d), by the generic scan and by the reconciler's direct pass
C4_DecimalsScaling ==
    (pc = "extracted" /\ OneUnhintedFact) =>
        /\ Scannable(doc[1], GenericContexts) =>
              raw_values_by_concept[doc[1].name][GenericContexts[doc[1].contextref]] =
                  DecimalsScaled(_safe_parse_number(doc[1].text), doc[1].decimals)
        /\ (OpensAsUtf8(file) /\ Tracked(doc[1], DirectContexts)) =>
              revenue_by_period[DirectContexts[doc[1].contextref]] =
                  DecimalsScaled(PyFloat(RawText(doc[1])), doc[1].decimals)

\* the reconciled map and facts['revenue'] hold largest for period p
HoldLargest(p, largest) ==
    /\ revenue_by_period[p] = largest
    /\ state["financials_raw"]["revenue"][p] = largest

\* C5: the reconciled revenue of a period is the maximum of the scaled values
\* of the tracked revenue facts for that period, in whatever order they stand,
\* and facts['revenue'] holds that maximum after the reconciliation
C5_RevenueMaximum ==
    pc = "extracted" =>
        \A p \in Periods :
            TrackedAt(p) # {} =>
                HoldLargest(p, RMaxOf({DirectScaled(doc[i]) : i \in TrackedAt(p)}))

\* two tracked facts of one period, the larger first, where the generic merge
\* had kept the smaller
C5_Witness ==
    /\ pc = "extracted"
    /\ \E i, j \in TrackedAt(P1) :
          /\ i < j
          /\ RLt(DirectScaled(doc[j]), DirectScaled(doc[i]))
          /\ revenue_by_period[P1] = DirectScaled(doc[i])
          /\ parsed_facts["revenue"][P1] = DirectScaled(doc[j])
          /\ state["financials_raw"]["revenue"][P1] = DirectScaled(doc[i])

\* C6: when the direct pass yields a period, facts['revenue'] is exactly the
\* reconciled map; when it yields none, facts['revenue'] is as the generic
\* scan left it (absent included); every other metric is unchanged
C6_WholesaleOverride ==
    pc = "extracted" =>
        LET facts == state["financials_raw"]
        IN  /\ revenue_by_period # EmptyDict =>
                  /\ "revenue" \in DOMAIN facts
                  /\ facts["revenue"] = revenue_by_period
            /\ revenue_by_period = EmptyDict =>
                  /\ ("revenue" \in DOMAIN facts) = ("revenue" \in DOMAIN parsed_facts)
                  /\ Get(facts, "revenue") = Get(parsed_facts, "revenue")
            /\ (DOMAIN facts) \ {"revenue"} = (DOMAIN parsed_facts) \ {"revenue"}
            /\ \A m \in (DOMAIN facts) \ {"revenue"} : facts[m] = parsed_facts[m]

\* the generic revenue entry had a period the reconciled map lacks, another
\* metric is present, and the override has taken place
C6_Witness ==
    /\ pc = "extracted"
    /\ revenue_by_period # EmptyDict
    /\ "revenue" \in DOMAIN parsed_facts
    /\ (DOMAIN parsed_facts["revenue"]) \ (DOMAIN revenue_by_period) # {}
    /\ DOMAIN state["financials_raw"]["revenue"] = DOMAIN revenue_by_period

\* the fact's context id is not in the Context map, or its text is no number
BadFact(tag) ==
    \/ tag.contextref \notin DOMAIN GenericContexts
    \/ _safe_parse_number(tag.text) = None

\* the document without its bad facts
WithoutBad(tags) == SelectSeq(tags, LAMBDA tag : ~BadFact(tag))

\* the Fact Table extracted from a document that reads as f
TableOf(f, tags) ==
    _fix_revenue_from_ixbrl(parse_10k_html_ixbrl(tags),
                            _extract_revenue_direct_from_file(f, tags))

\* the Fact Table is the one of the document without its bad facts
BadFactsSkipped ==
    pc = "extracted" => state["financials_raw"] = TableOf(file, WithoutBad(doc))

\* a document that is there to read is extracted, whatever its facts
NoFactAborts ==
    (HasDocPath(state) /\ Readable(file)) => "ExtractionAgent" \notin raised

\* C23: a fact whose context id is not in the Context map, or whose text does
\* not parse to a number, is skipped and contributes nothing to the Fact
\* Table, every other fact is extracted as if the bad fact were not there, and
\* the extraction never aborts because of a single fact.
C23_PerFactErrorsLocal == BadFactsSkipped /\ NoFactAborts

\* the document is one fact whose decimals attribute is no integer
OneMalformedDecimals ==
    /\ Len(doc) = 1
    /\ doc[1].decimals # None
    /\ PyInt(doc[1].decimals) = None

\* raw number times the unit scale
TimesUnitScale(number, unitref) ==
    RMul(number, ScaleUnit(unitref, _build_unit_map(DocUnits)))

\* the generic scan stores the fact with decimal scale 1
GenericKeepsMalformed ==
    (pc = "extracted" /\ OneMalformedDecimals /\ Scannable(doc[1], GenericContexts)) =>
        /\ doc[1].name \in DOMAIN raw_values_by_concept
        /\ raw_values_by_concept[doc[1].name][GenericContexts[doc[1].contextref]] =
              TimesUnitScale(_safe_parse_number(doc[1].text), doc[1].unitref)

\* the reconciler stores the fact with decimal scale 1
DirectKeepsMalformed ==
    (pc = "extracted" /\ OneMalformedDecimals /\ TrackedAt(P1) # {}) =>
        /\ P1 \in DOMAIN revenue_by_period
        /\ revenue_by_period[P1] = TimesUnitScale(PyFloat(RawText(doc[1])), doc[1].unitref)

\* C24: a fact whose decimals attribute cannot be parsed as an integer is
\* still stored, with decimal scale 1 (scaled value = raw number times the
\* unit scale), in both the generic Fact Scanner and the Revenue Reconciler.
C24_MalformedDecimalsDegrade == GenericKeepsMalformed /\ DirectKeepsMalformed

\* no result of the extraction is in the session state
NothingWritten ==
    {"financials_raw", "extraction", "available_periods"} \cap DOMAIN state = {}

\* without a path or a file the agent raises and writes nothing
UnreadableIsFatal ==
    (pc # "start" /\ (~HasDocPath(state) \/ ~Readable(file))) =>
        "ExtractionAgent" \in raised /\ NothingWritten

\* no Fact Table is written when the reconciler could not read the file
NoTableWithoutReconciler ==
    (pc # "start" /\ ~OpensAsUtf8(file)) => NothingWritten

\* C25: when the document path is missing from state or the file cannot be
\* read, ExtractionAgent raises and emits no state_delta, so neither
\* financials_raw, extraction nor available_periods is written, and the
\* reconciler's own swallowed read failure never lets a Fact Table through.
C25_UnreadableIsFatal == UnreadableIsFatal /\ NoTableWithoutReconciler

\* C27: in the state_delta ExtractionAgent emits, state['extraction']['facts']
\* and state['financials_raw'] are the same table (same metrics, periods and
\* values, including the reconciled revenue) for every document, including
\* one where the generic scan finds no metric and the reconciler finds revenue.
C27_OneFactTable ==
    pc = "extracted" => state["extraction"].facts = state["financials_raw"]

\* the document is one revenue fact that both passes read
OneRevenueFact ==
    /\ Len(doc) = 1
    /\ TrackedAt(P1) = {1}
    /\ NameStripped(doc[1].name) = doc[1].name
    /\ Scannable(doc[1], GenericContexts)

\* the direct pass computes the generic scan's ScaledValue
PassesAgree ==
    (pc = "extracted" /\ OneRevenueFact) =>
        revenue_by_period[P1] = ScaledValue(doc[1], _build_unit_map(DocUnits))

\* the override leaves the period's revenue as the generic scan had it
OverrideKeepsRevenue ==
    (pc = "extracted" /\ OneRevenueFact) =>
        state["financials_raw"]["revenue"][P1] = parsed_facts["revenue"][P1]

\* C26: for a single revenue fact (tracked concept, resolvable context,
\* parsable number) with any decimals value and any unit scale hint, the value
\* the reconciler's direct pass computes equals the ScaledValue the generic
\* scan computes for the same fact, so the override does not change the
\* period's revenue.
C26_RevenuePassesScaleAlike == PassesAgree /\ OverrideKeepsRevenue

-----------------------------------------------------------------------------
(* Properties of the metrics *)

\* the Fact Table the metrics are computed from
FactTable == OrEmpty(Get(state, "financials_raw"))

\* the value of a metric at a period in the Fact Table, None when it has none
FactAt(metric, period) == Get(OrEmpty(Get(FactTable, metric)), period)

Margins ==
    {"gross_margin", "operating_margin", "ebitda_margin", "net_margin", "fcf_margin"}

NoRevenue(period) ==
    FactAt("revenue", period) = None \/ IsZero(FactAt("revenue", period))

\* the periods of the Fact Table that have an immediately preceding period
Later(periods) == {periods[i] : i \in 2..Len(periods)}

PrevOf(periods, period) == periods[IndexOf(periods, period) - 1]

GrowthOf(curr, prev) ==
    IF curr = None \/ prev = None THEN None
    ELSE IF IsZero(prev) THEN None
    ELSE RDiv(RSub(curr, prev), RAbs(prev))

\* growth as stated, over the values an implementation reports per period
GrowthStated(reported, periods, metric, period) ==
    IF period \in Later(periods)
    THEN GrowthOf(Get(reported[period], metric),
                  Get(reported[PrevOf(periods, period)], metric))
    ELSE None

ChainEbitda(operating_income, d_and_a, net_income) ==
    IF operating_income # None /\ d_and_a # None THEN RAdd(operating_income, d_and_a)
    ELSE IF operating_income # None THEN operating_income
    ELSE IF net_income # None /\ d_and_a # None THEN RAdd(net_income, d_and_a)
    ELSE net_income

EbitdaStated(period) ==
    ChainEbitda(FactAt("operating_income", period),
                FactAt("depreciation_amortization", period),
                FactAt("net_income", period))

MarginsGuarded(reported) ==
    \A p \in DOMAIN reported :
        NoRevenue(p) => \A m \in Margins : Get(reported[p], m) = None

FinancialMarginsGuarded ==
    pc = "financial" => MarginsGuarded(state["financial_metrics"])

CoreMarginsGuarded == pc = "core" => MarginsGuarded(core_result.per_period)

\* C7: whenever the revenue of a period is 0 or absent, each of the gross,
\* operating, EBITDA, net and FCF margins of that period is absent, in the
\* result of compute_core_metrics and in the metrics FinancialAgent writes.
C7_DivisionGuard == CoreMarginsGuarded /\ FinancialMarginsGuarded

FinancialGrowthStated ==
    pc = "financial" =>
        \A p \in DOMAIN state["financial_metrics"] : \A g \in DOMAIN metrics_to_track :
            Get(state["financial_metrics"][p], g) =
                GrowthStated(state["financial_metrics"], state["available_periods"],
                             metrics_to_track[g], p)

CoreGrowthStated ==
    pc = "core" =>
        \A p \in DOMAIN core_result.per_period : \A g \in DOMAIN metrics_to_track :
            Get(core_result.yoy[g], p) =
                GrowthStated(core_result.per_period, core_result.periods,
                             metrics_to_track[g], p)

\* C8: for revenue, net_income, fcf and ebitda, the growth at a period with an
\* immediately preceding period is (current - previous) / |previous|; it is
\* absent at the first period, when current or previous is missing and when
\* previous is 0; in compute_core_metrics and in FinancialAgent alike.
C8_YoYGrowth == CoreGrowthStated /\ FinancialGrowthStated

FinancialEbitdaChain ==
    pc = "financial" =>
        \A p \in DOMAIN state["financial_metrics"] :
            Get(state["financial_metrics"][p], "ebitda") = EbitdaStated(p)

CoreEbitdaChain ==
    pc = "core" =>
        \A p \in DOMAIN core_result.per_period :
            Get(core_result.per_period[p], "ebitda") = EbitdaStated(p)

\* C9: the ebitda of every period is operating_income + D&A when both are
\* present, else operating_income, else net_income + D&A when both are present,
\* else net_income, and absent when there is none of them; nothing else enters
\* it; in compute_core_metrics and in FinancialAgent alike.
C9_EbitdaChain == CoreEbitdaChain /\ FinancialEbitdaChain

ZeroPeriods == pc # "start" /\ AllPeriods(FactTable) = {}

\* C10: on a Fact Table of zero periods compute_core_metrics, FinancialAgent
\* and ValuationAgent each fail explicitly: none returns a result and none
\* writes metrics or a valuation record.
C10_ZeroPeriodFailure ==
    ZeroPeriods =>
        /\ pc = "core" => "compute_core_metrics" \in raised
        /\ core_result = EmptyDict
        /\ pc \notin {"financial", "valued"}
        /\ pc = "failed" => "FinancialAgent" \in raised
        /\ {"financial_metrics", "memo_financials", "valuation_metrics"}
               \cap DOMAIN state = {}

-----------------------------------------------------------------------------
(* Properties of the valuation *)

\* the valuation record and the metrics of its key period
Valuation == state["valuation_metrics"]

KeyMetrics == state["financial_metrics"][state["key_period"]]

StatedMarketCap(price, shares) ==
    IF price = None \/ shares = None THEN None ELSE RMul(price, shares)

StatedPe(market_cap, net_income) ==
    IF market_cap = None \/ net_income = None THEN None
    ELSE IF IsZero(net_income) THEN None
    ELSE RDiv(market_cap, net_income)

StatedFcfYield(fcf, market_cap) ==
    IF fcf = None \/ market_cap = None THEN None
    ELSE IF IsZero(market_cap) THEN None
    ELSE RDiv(fcf, market_cap)

MarketCapStated ==
    pc = "valued" =>
        Valuation.market_cap = StatedMarketCap(Valuation.current_price, Valuation.shares)

PeStated ==
    pc = "valued" => Valuation.pe = StatedPe(Valuation.market_cap, KeyMetrics.net_income)

FcfYieldStated ==
    pc = "valued" =>
        Valuation.fcf_yield = StatedFcfYield(KeyMetrics.fcf, Valuation.market_cap)

\* C11: market_cap = price * shares, absent iff price or shares is missing;
\* pe = market_cap / net_income, absent iff market_cap is absent or net_income
\* is missing or 0; fcf_yield = fcf / market_cap, absent iff fcf or market_cap
\* is missing or market_cap is 0, so that fcf = 0 gives fcf_yield = 0.
C11_ValuationRatios == MarketCapStated /\ PeStated /\ FcfYieldStated

FcfInputMissing(period) ==
    \/ FactAt("operating_cash_flow", period) = None
    \/ FactAt("capital_expenditures", period) = None

\* fcf, its margin and its growth are absent at a period, and its growth is
\* absent at the period after it
FcfAbsentAt(reported, growth_at, periods, period) ==
    /\ Get(reported[period], "fcf") = None
    /\ Get(reported[period], "fcf_margin") = None
    /\ growth_at[period] = None
    /\ \A q \in Later(periods) : PrevOf(periods, q) = period => growth_at[q] = None

FinancialFcfAbsence ==
    "financial_metrics" \in DOMAIN state =>
        \A p \in DOMAIN state["financial_metrics"] :
            FcfInputMissing(p) =>
                FcfAbsentAt(state["financial_metrics"],
                            [q \in DOMAIN state["financial_metrics"] |->
                                Get(state["financial_metrics"][q], "fcf_growth")],
                            state["available_periods"], p)

CoreFcfAbsence ==
    pc = "core" =>
        \A p \in DOMAIN core_result.per_period :
            FcfInputMissing(p) =>
                FcfAbsentAt(core_result.per_period,
                            [q \in DOMAIN core_result.per_period |->
                                Get(core_result.yoy.fcf_growth, q)],
                            core_result.periods, p)

ValuationFcfAbsence ==
    (pc = "valued" /\ FcfInputMissing(state["key_period"])) =>
        Valuation.fcf_yield = None /\ Valuation.fcf_yield_pct = None

\* C12: when operating_cash_flow or capital_expenditures is absent for a
\* period, fcf is absent for that period, and so are fcf_margin and fcf_growth
\* for it, fcf_growth for the next period, and the valuation's fcf_yield when
\* the period is the key period; none of them is 0.
C12_AbsencePropagates == FinancialFcfAbsence /\ CoreFcfAbsence /\ ValuationFcfAbsence

\* the key period lacks capital expenditures only, the period before it has a
\* free cash flow, and the valuation has a market cap
C12_Witness ==
    /\ pc = "valued"
    /\ state["available_periods"] = <<P1, P2>>
    /\ FactAt("operating_cash_flow", P2) # None
    /\ FactAt("capital_expenditures", P2) = None
    /\ Get(state["financial_metrics"][P1], "fcf") # None
    /\ FactAt("revenue", P2) # None
    /\ Valuation.market_cap # None

\* the share metrics in the stated order of preference
StatedShareOrder ==
    << "common_shares_outstanding", "shares_outstanding",
       "weighted_avg_shares_diluted", "weighted_avg_shares_basic" >>

\* the places of the stated order whose metric has a value for the key period
SharePlaces ==
    {i \in 1..Len(StatedShareOrder) : FactAt(StatedShareOrder[i], state["key_period"]) # None}

FirstShareUsed ==
    (pc = "valued" /\ SharePlaces # {}) =>
        /\ Valuation.shares_source = <<StatedShareOrder[Min(SharePlaces)]>>
        /\ Valuation.shares = FactAt(StatedShareOrder[Min(SharePlaces)], state["key_period"])
        /\ Valuation.shares_raw = Valuation.shares

NoShareMetric ==
    (pc = "valued" /\ SharePlaces = {}) =>
        Valuation.shares_source = None /\ Valuation.shares = None

\* C21: the valuation's shares value is the key-period value of the first of
\* common_shares_outstanding, shares_outstanding, weighted_avg_shares_diluted,
\* weighted_avg_shares_basic that has a value for the key period, and
\* shares_source names that metric; both are absent when none has one.
C21_SharesResolution == FirstShareUsed /\ NoShareMetric

\* shares_outstanding is the source while both weighted averages have a value
\* for the key period too, and another share metric is reported for the
\* earlier period only
C21_Witness ==
    /\ pc = "valued"
    /\ Valuation.shares_source = <<"shares_outstanding">>
    /\ FactAt("weighted_avg_shares_diluted", state["key_period"]) # None
    /\ FactAt("weighted_avg_shares_basic", state["key_period"]) # None
    /\ state["key_period"] = P2
    /\ FactAt("common_shares_outstanding", P1) # None

\* no share metric has a value for the key period although one has a value
\* for the earlier period
C21_WitnessAbsent ==
    /\ pc = "valued"
    /\ state["key_period"] = P2
    /\ FactAt("common_shares_outstanding", P1) # None
    /\ Valuation.shares_source = None

\* the period end dates that appear in any metric of the Fact Table
TablePeriods == UNION {DOMAIN FactTable[m] : m \in DOMAIN FactTable}

\* FinancialAgent wrote a key period only for a table with a period, and it is
\* the latest of the table
KeyPeriodLatest ==
    "key_period" \in DOMAIN state =>
        /\ state["key_period"] \in TablePeriods
        /\ \A p \in TablePeriods : p <= state["key_period"]

\* the snapshot names the key period and holds that period's figures
SnapshotOfKeyPeriod ==
    pc = "valued" =>
        /\ Valuation.key_period = <<state["key_period"]>>
        /\ Valuation.revenue = Get(KeyMetrics, "revenue")
        /\ Valuation.revenue = FactAt("revenue", state["key_period"])
        /\ Valuation.shares # None =>
               \E m \in DOMAIN FactTable : Valuation.shares = FactAt(m, state["key_period"])

\* C22: after extraction and metrics, key_period is the chronologically latest
\* period end date that appears in any metric of the final Fact Table, and
\* ValuationAgent computes its snapshot for that same period.
C22_KeyPeriod == KeyPeriodLatest /\ SnapshotOfKeyPeriod

\* the latest period appears in a share metric only, revenue is reported for
\* the earlier period, and the snapshot is the one of the latest period
C22_Witness ==
    /\ pc = "valued"
    /\ state["key_period"] = P2
    /\ FactAt("revenue", P1) # None
    /\ FactAt("revenue", P2) = None
    /\ Valuation.shares # None


-----------------------------------------------------------------------------
(* Properties of the section map *)

Mapped == pc = "mapped"

Sections == section_map.sections_by_id

Index == section_map.sections_index

StartsWith(s, prefix) == Len(s) >= Len(prefix) /\ SubSeq(s, 1, Len(prefix)) = prefix

RiskHeading == Chars("Item 1A. Risk Factors")

StaffHeading == Chars("Item 1B. Unresolved Staff Comments")

Body == Chars("risks are many")

\* the document reads Item 1A. Risk Factors, a body or none, Item 1B.
\* Unresolved Staff Comments, a body or none
RiskThenStaff ==
    /\ Len(html_nodes) >= 2
    /\ html_nodes[1] = RiskHeading
    /\ \E j \in 2..Len(html_nodes) :
          /\ html_nodes[j] = StaffHeading
          /\ \A k \in 2..Len(html_nodes) : k # j => html_nodes[k] = Body

\* C13: for a text 'Item 1A. Risk Factors <body1> Item 1B. Unresolved Staff
\* Comments <body2>' the section map has an item_1a entry whose text starts at
\* 'Item 1A.' and holds nothing of the Item 1B heading, with section_type
\* risks, and a separate item_1b entry whose text starts at 'Item 1B.'.
C13_SectionSplitting ==
    (Mapped /\ RiskThenStaff) =>
        /\ Chars("item_1a") \in Keys(Sections)
        /\ StartsWith(At(Sections, Chars("item_1a")).text, Chars("Item 1A."))
        /\ ~Contains(At(Sections, Chars("item_1a")).text, Chars("Item 1B."))
        /\ At(Index, Chars("item_1a")).section_type = "risks"
        /\ Chars("item_1b") \in Keys(Sections)
        /\ StartsWith(At(Sections, Chars("item_1b")).text, Chars("Item 1B."))

\* the position after <number><optional letter> when a full stop stands
\* there, for digits from b up to c; 0 when none does
NumberEnd(t, b, c) ==
    IF c = b THEN 0
    ELSE IF c <= Len(t) /\ t[c] = "." THEN c
    ELSE IF c + 1 <= Len(t) /\ LowerChar(t[c]) \in Letters /\ t[c + 1] = "." THEN c + 1
    ELSE 0

\* the position of the full stop of an occurrence of
\* 'Item <number><optional letter>.' that starts at position i; 0 when none
OccurrenceEnd(t, i) ==
    IF /\ i + 4 <= Len(t)
       /\ Lower(SubSeq(t, i, i + 3)) = <<"i", "t", "e", "m">>
       /\ t[i + 4] \in Space
    THEN NumberEnd(t, SkipWhile(t, i + 4, Space),
                   SkipWhile(t, SkipWhile(t, i + 4, Space), Digits))
    ELSE 0

Occurrences(t) == {i \in 1..Len(t) : OccurrenceEnd(t, i) # 0}

\* the id of the occurrence at position i
OccurrenceId(t, i) ==
    ItemId(SubSeq(t, SkipWhile(t, i + 4, Space), OccurrenceEnd(t, i) - 1))

Detected == _find_item_headings(section_map.full_text)

DetectedAs(headings, start, id) ==
    \E k \in 1..Len(headings) :
        headings[k].start = start /\ headings[k].section_id = id

\* every occurrence is a detected heading, under its id
EveryOccurrenceDetected ==
    \A headings \in {Detected} :
        \A i \in Occurrences(section_map.full_text) :
            DetectedAs(headings, i, OccurrenceId(section_map.full_text, i))

\* no chunk holds an occurrence after its own first one
OneHeadingPerSection ==
    \A k \in 1..Len(section_map.chunks) :
        Occurrences(section_map.chunks[k].text) \subseteq {1}

\* C14: every occurrence in the flattened text of 'Item <number><optional
\* letter>.', in any case, with any single letter, wherever it stands on a
\* line, is detected as a heading with id item_<number><lowercased letter>,
\* and no section's text holds a further occurrence after its first one.
C14_HeadingDetectionComplete ==
    Mapped => EveryOccurrenceDetected /\ OneHeadingPerSection


\* the ids of the detected headings: each heading gives one chunk
DetectedIds == {section_map.chunks[k].id : k \in 1..Len(section_map.chunks)}

\* the chunks of a section id, in order of detection
ChunksOf(id) == SelectSeq(section_map.chunks, LAMBDA c : c.id = id)

LongestOf(id) == Max({Len(ChunksOf(id)[k].text) : k \in 1..Len(ChunksOf(id))})

EntriesOf(d, id) == {i \in 1..Len(d) : d[i].id = id}

OneEntryPerId ==
    /\ Keys(Sections) = DetectedIds
    /\ \A id \in Keys(Sections) : Cardinality(EntriesOf(Sections, id)) = 1

LongestKept ==
    \A id \in Keys(Sections) :
        /\ \E k \in 1..Len(ChunksOf(id)) : At(Sections, id) = ChunksOf(id)[k]
        /\ Len(At(Sections, id).text) = LongestOf(id)
        /\ Cardinality(EntriesOf(Index, id)) = 1
        /\ At(Index, id).approx_char_len = <<LongestOf(id)>>

\* C15: the section map holds exactly one entry per detected section id; for
\* an id detected more than once the entry kept is the one with the longest
\* text, whichever of them comes first, and the Section Index entry's
\* approx_char_len is the length of that longest text.
C15_DuplicateHeadings == Mapped => OneEntryPerId /\ LongestKept

\* a section id is detected twice, the longer text first, and the index
\* records the length of that first text
C15_Witness ==
    /\ Mapped
    /\ \E id \in Keys(Sections) :
          /\ Len(ChunksOf(id)) = 2
          /\ Len(ChunksOf(id)[1].text) > Len(ChunksOf(id)[2].text)
          /\ At(Index, id).approx_char_len = <<Len(ChunksOf(id)[1].text)>>

CatalogueOverlaid ==
    \A k \in 1..Len(static_index) :
        /\ Cardinality(EntriesOf(Index, static_index[k].id)) = 1
        /\ At(Index, static_index[k].id).section_type = static_index[k].section_type
        /\ At(Index, static_index[k].id).part = static_index[k].part
        /\ At(Index, static_index[k].id).present_in_document
               = (static_index[k].id \in DetectedIds)

ExtrasAdded ==
    \A id \in DetectedIds \ Keys(static_index) :
        /\ Cardinality(EntriesOf(Index, id)) = 1
        /\ At(Index, id).section_type = "other"
        /\ At(Index, id).present_in_document

\* C20: for a document with at least one detected heading the Section Index
\* holds every static-catalogue id exactly once with its catalogue
\* section_type and part and with present_in_document true exactly when the
\* id was detected, one entry of section_type other and present_in_document
\* true for every detected id outside the catalogue, and no other id.
C20_SectionIndexOverlay ==
    (Mapped /\ section_map.chunks # <<>>) =>
        /\ CatalogueOverlaid
        /\ ExtrasAdded
        /\ Keys(Index) = Keys(static_index) \cup DetectedIds

\* a catalogue id and an id outside the catalogue are both detected
C20_Witness ==
    /\ Mapped
    /\ Chars("item_17") \in DetectedIds
    /\ Chars("item_7") \in DetectedIds
    /\ Chars("item_1a") \notin DetectedIds
    /\ At(Index, Chars("item_17")).section_type = "other"
    /\ At(Index, Chars("item_7")).present_in_document


-----------------------------------------------------------------------------
(* Properties of the retrieval *)

Fallback == pc = "fallback"

NormIndex == _normalize_sections_index(sections_index)

QueryTokens == Range(_normalize_text(question))

\* |query_tokens \cap section_tokens| / |query_tokens|
StatedScore(q_tokens, meta) ==
    IF q_tokens = {} THEN Zero
    ELSE Rat(Cardinality(q_tokens \cap SectionTokens(meta)), Cardinality(q_tokens))

\* the stated score of each section of the index
Scores(q_tokens, index) ==
    SubSeq([i \in 1..Len(index) |-> StatedScore(q_tokens, index[i])], 1, Len(index))

Returned == sections_index_filtered

SafeResult(q_tokens, result) ==
    /\ Len(result) <= top_k
    /\ \A r \in 1..Len(result) :
          /\ q_tokens \cap SectionTokens(result[r]) # {}
          /\ ~RLt(StatedScore(q_tokens, result[r]), min_score)

\* C16: for any question, any index, any min_score > 0 and any top_k >= 1
\* _fallback_sections_for_question returns no section whose token overlap
\* with the question is zero, no section scoring below min_score, and no more
\* than top_k sections.
C16_FallbackSafety ==
    (Fallback /\ RLt(Zero, min_score) /\ top_k >= 1) => SafeResult(QueryTokens, Returned)

AtLeast(scores, m) == {i \in 1..Len(scores) : ~RLt(scores[i], m)}

CappedOf(scores) ==
    /\ Cardinality(AtLeast(scores, min_score)) > top_k
    /\ \E i \in 1..Len(scores) : scores[i] = Zero

\* the index holds more sections that reach min_score than top_k and one
\* section with no overlap at all; the call returned top_k sections
C16_Witness ==
    /\ Fallback
    /\ Len(Returned) = top_k
    /\ CappedOf(Scores(QueryTokens, NormIndex))

\* section i of the index is ranked before section j
Ahead(scores, i, j) == RLt(scores[j], scores[i]) \/ (scores[i] = scores[j] /\ i < j)

RankAmong(scores, eligible, i) == 1 + Cardinality({j \in eligible : Ahead(scores, j, i)})

RankedResult(index, scores, eligible, result) ==
    /\ Len(result) = Min({top_k, Cardinality(eligible)})
    /\ \A r \in 1..Len(result) :
          \E i \in eligible : RankAmong(scores, eligible, i) = r /\ result[r] = index[i]

RankedBy(index, scores, result) ==
    RankedResult(index, scores, AtLeast(scores, min_score), result)

TieAfterLower(scores) ==
    /\ Len(scores) = 3
    /\ scores[2] = scores[3]
    /\ RLt(scores[1], scores[2])
    /\ ~RLt(scores[1], min_score)

byLabels(type) == {type} \cap core_intents

forLabels(type) == {l \in DOMAIN intent_to_types : type \in intent_to_types[l]}

\* the entries whose section_type maps into the requested labels, or the
\* whole index when no label is requested; labels[type] are the labels a
\* section_type maps into
StatedFilter(index, labels) ==
    IF intents = {} THEN index
    ELSE SelectSeq(index, LAMBDA meta : labels[meta.section_type] \cap intents # {})

SectionTypes == {static_index[k].section_type : k \in 1..Len(static_index)} \cup {"other"}

ByIntentsStated ==
    (pc = "filtered_by" /\ sections_index.form = "dict") =>
        Returned = StatedFilter(sections_index.items, [t \in SectionTypes |-> byLabels(t)])

ForIntentsStated ==
    (pc = "filtered_for" /\ sections_index.form = "dict") =>
        Returned = StatedFilter(sections_index.items, [t \in SectionTypes |-> forLabels(t)])

\* C18: given a non-empty set of requested labels each filter returns exactly
\* the index entries whose section_type maps into the requested labels, each
\* unchanged, and given no requested label it returns the whole index; this
\* holds for _filter_sections_index_by_intents and for
\* _filter_sections_index_for_intents.
C18_TypeFilter == ByIntentsStated /\ ForIntentsStated


-----------------------------------------------------------------------------
(* Properties of the narrative pipeline *)

Stored == state["sections_index"]

\* the value under state['sections_index'] is the Section Index of the
\* section map
StoredIsIndex ==
    pc \in {"risk_mdna", "answered"} => Stored.items = section_map.sections_index

Answered == pc = "answered" /\ "qa_last_evidence" \in DOMAIN state

\* a question with intent risks on a document in which Item 1A is detected
RiskQuestion ==
    /\ Answered
    /\ "risks" \in state["qa_last_evidence"].intents
    /\ Chars("item_1a") \in DetectedIds

RisksRetrieved ==
    RiskQuestion =>
        Chars("item_1a") \in Keys(state["qa_last_evidence"].sections_index_filtered)

\* the length an entry records: approx_char_len, or the length of its text
EntryLen(e) ==
    IF "approx_char_len" \in DOMAIN e THEN e.approx_char_len ELSE <<Len(e.text)>>

LongestResolved ==
    pc \in {"risk_mdna", "answered"} =>
        \A id \in DetectedIds :
            EntryLen(At(_normalize_sections_index(Stored), id)) = <<LongestOf(id)>>

\* C19: the value RiskMdnaAgent stores under state['sections_index'], which
\* QaAgent filters, is the Section Index of the section map, one entry per
\* section id with its section_type: for a document in which Item 1A is
\* detected a question with intent risks gets a filtered index that holds
\* item_1a, and a section id detected twice resolves to its longest text.
C19_SectionIndexIntact == StoredIsIndex /\ RisksRetrieved /\ LongestResolved


-----------------------------------------------------------------------------
(* The pipeline and the chat loop *)

\* the last answered turn of QaAgent built the full evidence
FullAnswer ==
    /\ pc = "QaAgent"
    /\ "qa_last_route" \in DOMAIN state
    /\ state["qa_last_route"].label = "auto_multi"

\* FinancialAgent stored a metrics record for key_period
MetricsStored ==
    /\ "key_period" \in DOMAIN state
    /\ "financial_metrics" \in DOMAIN state
    /\ state["key_period"] \in DOMAIN state["financial_metrics"]

\* C28: after the pipeline has run, the financial_metrics_latest evidence
\* QaAgent builds for a question is the metrics record FinancialAgent stored
\* for key_period, and it is not empty when FinancialAgent computed values
\* for that period.
C28_MetricsReachQa ==
    FullAnswer /\ MetricsStored =>
        /\ state["qa_last_evidence"].financial_metrics_latest
               = state["financial_metrics"][state["key_period"]]
        /\ state["qa_last_evidence"].financial_metrics_latest # EmptyDict


\* a step that is a turn of QaAgent in the chat loop
IsChatTurn == pc = "asked" /\ pc' = "QaAgent"

\* the question of the turn, as QaAgent cleans it
Asked == QuestionStr(StateOr(state, "qa_last_question", <<>>))

\* the entry of the turn just answered
TurnEntry(st) ==
    [q |-> st["qa_last_question"], a |-> st["qa_last_answer"], route |-> st["qa_last_route"]]

HistoryBounded ==
    IsChatTurn /\ Asked # <<>> =>
        /\ Len(state'["qa_history"]) \in 1..2
        /\ state'["qa_history"][Len(state'["qa_history"])] = TurnEntry(state')
        /\ state'["qa_last_question"] = Asked

EmptyQuestionWritesNothing == IsChatTurn /\ Asked = <<>> => state' = state

\* C29: after any sequence of QaAgent turns, live-quote short-circuit turns
\* and full-answer turns in any interleaving, the qa_history written to
\* state has at most 2 entries and its last entry is the turn just answered;
\* a turn with an empty question writes nothing to state.
C29_BoundedHistory == [][HistoryBounded /\ EmptyQuestionWritesNothing]_vars

\* a full-answer turn that found two earlier turns in the history, one of
\* them a live-quote turn, and left two entries
C29_Witness ==
    /\ FullAnswer
    /\ Len(state["qa_last_evidence"].recent_qa) = 2
    /\ Len(state["qa_history"]) = 2
    /\ state["qa_history"][1].route.label = "live_quote"
    /\ state["qa_history"][2] = TurnEntry(state)

\* an empty question after two answered turns
C29_WitnessEmpty ==
    /\ pc = "QaAgent"
    /\ StateOr(state, "qa_last_question", Chars("?")) = <<>>
    /\ Len(StateOr(state, "qa_history", <<>>)) = 2


\* the agent b is in ran before place i
RanBefore(b, i) == \E j \in 1..(i - 1) : ran[j] = b

\* the agent a has run only after each agent of earlier
RunsAfter(a, earlier) ==
    \A i \in 1..Len(ran) : ran[i] = a => \A b \in earlier : RanBefore(b, i)

ValuationRunsLate ==
    RunsAfter("ValuationAgent", {"ExtractionAgent", "FinancialAgent", "LiveMarketStateAgent"})

MemoRunsLast == RunsAfter("MemoAgent", {"ValuationAgent", "CompanyAgent", "RiskMdnaAgent"})

\* the agents of the pipeline that write the key k
Writers(k) == {w \in Range(sub_agents) : k \in Writes(w)}

\* an agent that has run read no key whose writer had not run before it
ReadsAfterWrites ==
    \A i \in 1..Len(ran) :
        ran[i] \in Range(sub_agents) =>
            \A k \in Reads(ran[i]) : \A w \in Writers(k) \ {ran[i]} : RanBefore(w, i)

\* the keys of the state a step writes
ChangedKeys == {k \in DOMAIN state' : k \notin DOMAIN state \/ state'[k] # state[k]}

\* a step of an agent of the pipeline writes keys of its own state_delta only
WritesOwnKeys ==
    \A name \in Range(sub_agents) :
        ran' = Append(ran, name) => ChangedKeys \subseteq Writes(name)

\* at the step of ValuationAgent the tables of ExtractionAgent and
\* FinancialAgent are in the state, and at the step of MemoAgent the results
\* of ValuationAgent, CompanyAgent and RiskMdnaAgent
InputsEmitted ==
    /\ ran' = Append(ran, "ValuationAgent") =>
          {"financials_raw", "available_periods", "financial_metrics", "key_period"}
              \subseteq DOMAIN state
    /\ ran' = Append(ran, "MemoAgent") =>
          {"valuation_metrics", "company_overview", "risk_mdna_summary"}
              \subseteq DOMAIN state

=============================================================================
